---- MODULE Spec2Model ----
(***************************************************************************)
(* Reload engine of the urbis building viewer backend:                     *)
(*   - the shadow-table reload of the 3d_construction dataset group        *)
(*     (routers/maintenance.py: load_3d_construction, _create_tables,      *)
(*     _create_indexes, _replace_tables),                                  *)
(*   - the face pass that rebuilds building solids                         *)
(*     (parsers/urbis_3d_construction.py),                                 *)
(*   - the forbidden-zone filter, and                                      *)
(*   - the identifier parser read_inspire_id.                              *)
(* The relational store is PostgreSQL: DDL is transactional, a COPY is one *)
(* statement, names of tables and indexes share one namespace per schema.  *)
(***************************************************************************)
EXTENDS Integers, Sequences, FiniteSets, TLC

\* ------------------------------------------------------------------ bounds
\* Longest face stream of the source package.
MaxFaces == 2
\* Longest face stream when reloads are served concurrently.
MaxFacesConcurrent == 1
\* Number of reload requests served in one behaviour.
MaxRuns == 2
\* Longest identifier text given to read_inspire_id.
MaxUriLen == 4
\* Most records of an iterable given to bulk_insert.
MaxRecords == 3

\* ------------------------------------------------------- program constants
\* BuildingFaceType members used by the face pass.
GROUNDSURFACE == 1
WALLSURFACE == 6

\* Python's None, and the NULL of a column.
Null == "NULL"

\* ----------------------------------------------------------------- strings
\* A text is a sequence of one-character strings.
Digits == <<"0", "1", "2", "3", "4", "5", "6", "7", "8", "9">>

IsDigit(c) == \E i \in 1..Len(Digits) : Digits[i] = c

DigitValue(c) == (CHOOSE i \in 1..Len(Digits) : Digits[i] = c) - 1

\* InspireBaseURI members: 'https://databrussels.be/id/buildingsolid/' and
\* 'https://databrussels.be/id/buildingface/', shortened to two characters.
BUILDING_SOLID == <<"s", "/">>
BUILDING_FACE == <<"f", "/">>

\* str.startswith
StartsWith(s, prefix) ==
    /\ Len(s) >= Len(prefix)
    /\ SubSeq(s, 1, Len(prefix)) = prefix

\* str.removeprefix: the text without the prefix when it starts with it, the
\* text itself otherwise.
RemovePrefix(s, prefix) ==
    IF StartsWith(s, prefix) THEN SubSeq(s, Len(prefix) + 1, Len(s)) ELSE s

\* str.strip restricted to the blank " ".
RECURSIVE LStrip(_)
LStrip(s) == IF s # <<>> /\ Head(s) = " " THEN LStrip(Tail(s)) ELSE s

RECURSIVE RStrip(_)
RStrip(s) ==
    IF s # <<>> /\ s[Len(s)] = " " THEN RStrip(SubSeq(s, 1, Len(s) - 1)) ELSE s

Strip(s) == RStrip(LStrip(s))

\* The digit groups of an int() literal: digits, with single underscores
\* allowed between two digits.
IsDigitString(s) ==
    /\ s # <<>>
    /\ IsDigit(s[1])
    /\ IsDigit(s[Len(s)])
    /\ \A i \in 1..Len(s) : IsDigit(s[i]) \/ s[i] = "_"
    /\ \A i \in 1..(Len(s) - 1) : ~(s[i] = "_" /\ s[i + 1] = "_")

RECURSIVE DecimalValue(_)
DecimalValue(s) ==
    IF s = <<>> THEN 0
    ELSE IF s[Len(s)] = "_" THEN DecimalValue(SubSeq(s, 1, Len(s) - 1))
    ELSE 10 * DecimalValue(SubSeq(s, 1, Len(s) - 1)) + DigitValue(s[Len(s)])

\* Python's int(text): surrounding blanks are dropped, one sign is allowed,
\* then digits; anything else raises ValueError.
PyInt(s) ==
    LET t == Strip(s)
        signed == t # <<>> /\ t[1] \in {"+", "-"}
        body == IF signed THEN Tail(t) ELSE t
    IN  IF IsDigitString(body)
        THEN [ok |-> TRUE,
              value |-> IF signed /\ t[1] = "-" THEN 0 - DecimalValue(body)
                        ELSE DecimalValue(body)]
        ELSE [ok |-> FALSE, value |-> 0]

\* None where a text is expected (a text never holds a longer element).
NoneText == <<"None">>

\* read_inspire_id(uri, uri_base): a None uri has no removeprefix and raises.
read_inspire_id(uri, uri_base) ==
    IF uri = NoneText THEN [ok |-> FALSE, value |-> 0]
    ELSE PyInt(RemovePrefix(uri, uri_base))

\* ---------------------------------------------------------------- geometry
\* A representative point is abstracted to the place it lies at; a forbidden
\* polygon to a name and the set of places it covers.  pDegenerate stands for
\* the points the geometric predicates cannot handle.
Points == {"pA", "pB", "pDegenerate"}

\* The geometry of a face, abstracted to the place of its centroid.
Shapes == {"polyA", "polyB", "polyDegenerate"}

\* shape.centroid of a face geometry.
Centroid(shape) ==
    CASE shape = "polyA" -> "pA"
      [] shape = "polyB" -> "pB"
      [] OTHER -> "pDegenerate"

\* The polygon directories a reload may find (read_forbidden_areas_polygons).
ForbiddenDirs == {<<>>, <<"zoneA">>, <<"zoneB", "zoneA">>}

\* The places a forbidden polygon covers.
Covers(polygon) ==
    CASE polygon = "zoneA" -> {"pA"}
      [] polygon = "zoneB" -> {"pA", "pB"}
      [] OTHER -> {}

\* The test with a degenerate point taken as a match.
ExclusionTestDegenerateMatches(geometry, polygons, degenerateRaises) ==
    IF geometry = Null THEN "raised"
    ELSE IF geometry = "pDegenerate" THEN "match"
    ELSE IF \E i \in 1..Len(polygons) : geometry \in Covers(polygons[i])
         THEN "match"
    ELSE "no_match"

\* The test with only the last polygon of the list compared.
ExclusionTestLastPolygonOnly(geometry, polygons, degenerateRaises) ==
    IF geometry = Null THEN "raised"
    ELSE IF geometry = "pDegenerate"
         THEN (IF degenerateRaises THEN "raised" ELSE "no_match")
    ELSE IF polygons # <<>> /\ geometry \in Covers(polygons[Len(polygons)])
         THEN "match"
    ELSE "no_match"

\* project_to_ground followed by intersects, for one solid (the body of the
\* try block): a None geometry raises; a degenerate point raises or matches
\* nothing, as the geometry library decides (degenerateRaises).
ExclusionTest(geometry, polygons, degenerateRaises) ==
    IF geometry = Null THEN "raised"
    ELSE IF geometry = "pDegenerate"
         THEN (IF degenerateRaises THEN "raised" ELSE "no_match")
    ELSE IF \E i \in 1..Len(polygons) : geometry \in Covers(polygons[i])
         THEN "match"
    ELSE "no_match"

\* ------------------------------------------------------------- centroids
\* Most polygon parts of the multi-polygon of a face.
MaxParts == 2

\* A rational number, and a point as the sequence of its coordinates.
Frac(n, d) == [n |-> n, d |-> d]
FracEq(a, b) == a.n * b.d = b.n * a.d
FracAdd(a, b) == Frac(a.n * b.d + b.n * a.d, a.d * b.d)

RECURSIVE Sum(_)
Sum(numbers) ==
    IF numbers = <<>> THEN 0 ELSE Head(numbers) + Sum(Tail(numbers))

RECURSIVE FracSum(_)
FracSum(fractions) ==
    IF fractions = <<>> THEN Frac(0, 1)
    ELSE FracAdd(Head(fractions), FracSum(Tail(fractions)))

\* poly.exterior.coords: the ring closed, its first vertex repeated at the end.
ExteriorCoords(ring) == Append(ring, ring[1])

\* polygon_centroid_3d: coords.mean(axis=0) over exterior.coords.
polygon_centroid_3d(poly) ==
    LET coords == ExteriorCoords(poly)
    IN  [axis \in 1..3 |->
            Frac(Sum([i \in 1..Len(coords) |-> coords[i][axis]]), Len(coords))]

\* multipolygon_centroid_3d: np.mean of the centroids of the parts.
multipolygon_centroid_3d(multipoly) ==
    LET centroids == [p \in 1..Len(multipoly) |-> polygon_centroid_3d(multipoly[p])]
    IN  [axis \in 1..3 |->
            LET total == FracSum([p \in 1..Len(centroids) |-> centroids[p][axis]])
            IN  Frac(total.n, total.d * Len(centroids))]

\* Twice the signed area of a closed ring, and its first moments (times six),
\* from the x and y of its vertices.
RingCross(coords, i) ==
    coords[i][1] * coords[i + 1][2] - coords[i + 1][1] * coords[i][2]

RingArea2(coords) == Sum([i \in 1..(Len(coords) - 1) |-> RingCross(coords, i)])

RingMoment(coords, axis) ==
    Sum([i \in 1..(Len(coords) - 1) |->
            (coords[i][axis] + coords[i + 1][axis]) * RingCross(coords, i)])

\* +1 for a counter-clockwise ring, -1 for a clockwise one: a shell counts
\* with positive area whatever its orientation.
Orientation(coords) == IF RingArea2(coords) < 0 THEN 0 - 1 ELSE 1

\* shape.centroid of the geometry library for a multi-polygon whose parts
\* enclose area: the area-weighted centroid of the parts, computed on x and y;
\* the point it returns has two coordinates.
ShapelyCentroid(multipoly) ==
    LET rings == [p \in 1..Len(multipoly) |-> ExteriorCoords(multipoly[p])]
        area2 == Sum([p \in 1..Len(rings) |->
                        Orientation(rings[p]) * RingArea2(rings[p])])
    IN  [axis \in 1..2 |->
            Frac(Sum([p \in 1..Len(rings) |->
                        Orientation(rings[p]) * RingMoment(rings[p], axis)]),
                 3 * area2)]

\* The exterior rings of the faces of a source, each a sequence of vertices
\* <<x, y, z>>.
Rings ==
    {<< <<0, 0, 0>>, <<1, 0, 0>>, <<1, 1, 0>>, <<0, 1, 0>> >>,
     << <<0, 1, 0>>, <<1, 1, 0>>, <<1, 0, 0>>, <<0, 0, 0>> >>,
     << <<0, 0, 2>>, <<2, 0, 2>>, <<2, 2, 2>>, <<0, 2, 2>> >>,
     << <<0, 0, 0>>, <<3, 0, 0>>, <<0, 3, 3>> >>,
     << <<2, 0, 0>>, <<4, 0, 0>>, <<4, 1, 0>>, <<2, 1, 0>> >>,
     << <<0, 0, 0>>, <<2, 0, 0>>, <<2, 1, 1>>, <<1, 2, 2>>, <<0, 1, 1>> >>,
     << <<5, 5, 1>>, <<6, 5, 1>>, <<5, 6, 4>> >>}

MultiPolygons == UNION {[1..n -> Rings] : n \in 1..MaxParts}

\* ------------------------------------------------------------ the database
ActiveTables == <<"building_face", "building_solid", "forbidden_area">>

TmpName(table) == table \o "_tmp"

\* tmp_table_associations of load_3d_construction, in dict order.
tmp_table_associations ==
    [i \in 1..Len(ActiveTables) |->
        [tmp |-> TmpName(ActiveTables[i]), table |-> ActiveTables[i]]]

ActiveNames == {ActiveTables[i] : i \in 1..Len(ActiveTables)}
TmpNames == {TmpName(ActiveTables[i]) : i \in 1..Len(ActiveTables)}
TableNames == ActiveNames \cup TmpNames

\* associated_indexes of load_3d_construction: the column lists per table.
associated_indexes(tmp_table) ==
    CASE tmp_table = "building_face_tmp" -> << <<"building_solid_id">> >>
      [] tmp_table = "building_solid_tmp" -> << <<"geometry">> >>
      [] OTHER -> << >>

RECURSIVE JoinUnderscore(_)
JoinUnderscore(columns) ==
    IF columns = <<>> THEN ""
    ELSE IF Len(columns) = 1 THEN columns[1]
    ELSE columns[1] \o "_" \o JoinUnderscore(Tail(columns))

\* get_index_name: {table}_{col1}_{col2}...
get_index_name(table, columns) == table \o "_" \o JoinUnderscore(columns)

\* Primary key and NOT NULL columns declared by the mixins of core/models.py
\* (a Mapped[...] without "| None" is NOT NULL).
PrimaryKey(table) ==
    CASE table \in {"building_solid", "building_solid_tmp"} -> "building_solid_id"
      [] table \in {"street", "street_tmp"} -> "street_id"
      [] table \in {"municipality", "municipality_tmp"} -> "municipality_id"
      [] OTHER -> "id"

\* For the tables of the parcel_and_building group: those of the columns the
\* model carries.
NotNullColumns(table) ==
    CASE table \in {"building_face", "building_face_tmp"} ->
            {"id", "building_face_id", "building_solid_id", "type", "geometry"}
      [] table \in {"building_solid", "building_solid_tmp"} ->
            {"building_solid_id", "geometry"}
      [] table \in {"address", "address_tmp"} ->
            {"id", "address_id", "street_id", "municipality_id"}
      [] table \in {"building", "building_tmp"} -> {"id", "building_id"}
      [] table \in {"cadastral_parcel", "cadastral_parcel_tmp"} ->
            {"id", "cadastral_parcel_id", "cadastral_parcel_key"}
      [] table \in {"street", "street_tmp"} ->
            {"street_id", "street_name_french", "cleaned_street_name_french"}
      [] table \in {"municipality", "municipality_tmp"} ->
            {"municipality_id", "municipality_name_french"}
      [] OTHER -> {"id", "geometry"}

\* A table: its rows, the names of the indexes built on it by CREATE INDEX,
\* the name of the index of its primary key (made by CREATE TABLE), and the
\* number of the reload whose stage step created it (0: created at start-up).
NoTable ==
    [exists |-> FALSE, rows |-> {}, indexes |-> {}, pkey |-> "", created_by |-> 0]

EmptyTable(run, pkey) ==
    [exists |-> TRUE, rows |-> {}, indexes |-> {}, pkey |-> pkey,
     created_by |-> run]

\* Names of all relations (tables and indexes) of the schema.
RelationNames(d) ==
    {t \in DOMAIN d : d[t].exists}
        \cup UNION {d[t].indexes : t \in DOMAIN d}
        \cup {d[t].pkey : t \in {u \in DOMAIN d : d[u].exists}}

\* The name PostgreSQL derives for an object it names itself: {table}_{label},
\* the label followed by the number of the pass after the first.
makeObjectName(name1, label, pass) ==
    name1 \o "_" \o label \o (IF pass = 0 THEN "" ELSE Digits[pass + 1])

\* ChooseRelationName: the first derived name no relation of the schema has.
ChooseRelationName(d, name1, label) ==
    LET free == {n \in 0..(Len(Digits) - 1) :
                    makeObjectName(name1, label, n) \notin RelationNames(d)}
    IN  makeObjectName(name1, label,
                       CHOOSE n \in free : \A m \in free : n <= m)

\* The indexes attached to a table.
AttachedIndexes(d, t) == d[t].indexes \cup {d[t].pkey}

Ok(d) == [ok |-> TRUE, db |-> d, error |-> "none"]
Err(d, e) == [ok |-> FALSE, db |-> d, error |-> e]

\* One SQL statement of the orchestrator applied to database d.
Exec(d, stmt) ==
    CASE stmt.op = "drop_if_exists" ->          \* table.drop(checkfirst=True)
            Ok([d EXCEPT ![stmt.rel] = NoTable])
      [] stmt.op = "create_if_absent" ->        \* table.create(checkfirst=True)
            IF d[stmt.rel].exists THEN Ok(d)
            ELSE Ok([d EXCEPT ![stmt.rel] =
                        EmptyTable(stmt.arg,
                                   ChooseRelationName(d, stmt.rel, "pkey"))])
      [] stmt.op = "drop" ->                    \* DROP TABLE
            IF d[stmt.rel].exists THEN Ok([d EXCEPT ![stmt.rel] = NoTable])
            ELSE Err(d, "UndefinedTable")
      [] stmt.op = "rename_table" ->            \* ALTER TABLE .. RENAME TO
            IF ~d[stmt.rel].exists THEN Err(d, "UndefinedTable")
            ELSE IF stmt.arg \in RelationNames(d) THEN Err(d, "DuplicateTable")
            ELSE Ok([d EXCEPT ![stmt.arg] = d[stmt.rel], ![stmt.rel] = NoTable])
      [] stmt.op = "rename_index" ->            \* ALTER INDEX .. RENAME TO
            IF ~\E t \in DOMAIN d : stmt.rel \in d[t].indexes
            THEN Err(d, "UndefinedObject")
            ELSE IF stmt.arg \in RelationNames(d) THEN Err(d, "DuplicateTable")
            ELSE LET t == CHOOSE t \in DOMAIN d : stmt.rel \in d[t].indexes
                 IN  Ok([d EXCEPT ![t].indexes = (@ \ {stmt.rel}) \cup {stmt.arg}])
      [] stmt.op = "create_index" ->            \* CREATE INDEX name ON table
            IF ~d[stmt.arg].exists THEN Err(d, "UndefinedTable")
            ELSE IF stmt.rel \in RelationNames(d) THEN Err(d, "DuplicateTable")
            ELSE Ok([d EXCEPT ![stmt.arg].indexes = @ \cup {stmt.rel}])
      [] stmt.op = "delete_solids" ->           \* DELETE .. WHERE building_solid_id IN
            IF ~d[stmt.rel].exists THEN Err(d, "UndefinedTable")
            ELSE Ok([d EXCEPT ![stmt.rel].rows =
                        {r \in @ : r.building_solid_id \notin stmt.arg}])

Stmt(op, rel, arg) == [op |-> op, rel |-> rel, arg |-> arg]

\* The statements from position k on, applied in order; failAt is the position
\* of a statement the server refuses for an outside reason (lock timeout, lost
\* connection), 0 for none.  The result carries the state reached and whether
\* every statement succeeded.
RECURSIVE RunStatements(_, _, _, _)
RunStatements(d, stmts, k, failAt) ==
    IF k > Len(stmts) THEN Ok(d)
    ELSE IF k = failAt THEN Err(d, "OperationalError")
    ELSE CHOOSE out \in
             { IF r.ok THEN RunStatements(r.db, stmts, k + 1, failAt) ELSE r :
                   r \in {Exec(d, stmts[k])} } : TRUE

\* Every statement commits on its own: what a failure leaves behind without the
\* enclosing transaction.
RunAutocommit(d, stmts, failAt) == RunStatements(d, stmts, 1, failAt)

\* "async with async_engine.begin() as conn": commit when the block completes,
\* roll back to the state at BEGIN when a statement raises.
RunTransaction(d, stmts, failAt) ==
    LET r == RunStatements(d, stmts, 1, failAt)
    IN  IF r.ok THEN r ELSE Err(d, r.error)

\* The sequences of a sequence, one after the other.
RECURSIVE Flatten(_)
Flatten(seqs) == IF seqs = <<>> THEN <<>> ELSE Head(seqs) \o Flatten(Tail(seqs))

\* ------------------------------------------------------------ the COPY text
\* The characters that matter to COPY ... (FORMAT csv, DELIMITER E'\t'): the
\* delimiter, the end of a line and the quote character (PostgreSQL's default
\* QUOTE, which is also the default ESCAPE).
TAB == "\t"
NL == "\n"
QUOTE == "\""

\* Python's str(n) of an int n >= 0.
RECURSIVE PyStr(_)
PyStr(n) ==
    IF n < 10 THEN <<Digits[n + 1]>>
    ELSE PyStr(n \div 10) \o <<Digits[(n % 10) + 1]>>

\* '\t'.join(fields)
RECURSIVE JoinTab(_)
JoinTab(fields) ==
    IF fields = <<>> THEN <<>>
    ELSE IF Len(fields) = 1 THEN fields[1]
    ELSE fields[1] \o <<TAB>> \o JoinTab(Tail(fields))

\* How many times character c occurs in text.
RECURSIVE Occurrences(_, _)
Occurrences(text, c) ==
    IF text = <<>> THEN 0
    ELSE (IF Head(text) = c THEN 1 ELSE 0) + Occurrences(Tail(text), c)

\* The value the server gives a field: an unquoted empty field is NULL (the
\* default NULL string of the csv format), anything else is the text read.
CsvField(field, saw_quote) ==
    IF field = <<>> /\ ~saw_quote THEN [null |-> TRUE, text |-> <<>>]
    ELSE [null |-> FALSE, text |-> field]

\* The server reading csv text from character k on: rows are the rows
\* completed so far, fields the fields completed in the current row, field
\* the characters of the current field.  A quote character opens or closes a
\* quoted section, in which delimiters and ends of line are data and a doubled
\* quote is one quote character; a row ends at an end of line outside quotes.
RECURSIVE CsvScan(_, _, _, _, _, _, _)
CsvScan(text, k, rows, fields, field, in_quote, saw_quote) ==
    IF k > Len(text)
    THEN IF in_quote
         THEN [ok |-> FALSE, rows |-> rows, error |-> "BadCopyFileFormat"]
         ELSE IF fields = <<>> /\ field = <<>> /\ ~saw_quote
         THEN [ok |-> TRUE, rows |-> rows, error |-> "none"]
         ELSE [ok |-> TRUE,
               rows |-> Append(rows, Append(fields, CsvField(field, saw_quote))),
               error |-> "none"]
    ELSE IF in_quote
    THEN IF text[k] = QUOTE
         THEN IF k < Len(text) /\ text[k + 1] = QUOTE
              THEN CsvScan(text, k + 2, rows, fields, Append(field, QUOTE),
                           TRUE, saw_quote)
              ELSE CsvScan(text, k + 1, rows, fields, field, FALSE, saw_quote)
         ELSE CsvScan(text, k + 1, rows, fields, Append(field, text[k]),
                      TRUE, saw_quote)
    ELSE IF text[k] = QUOTE
    THEN CsvScan(text, k + 1, rows, fields, field, TRUE, TRUE)
    ELSE IF text[k] = TAB
    THEN CsvScan(text, k + 1, rows, Append(fields, CsvField(field, saw_quote)),
                 <<>>, FALSE, FALSE)
    ELSE IF text[k] = NL
    THEN CsvScan(text, k + 1,
                 Append(rows, Append(fields, CsvField(field, saw_quote))),
                 <<>>, <<>>, FALSE, FALSE)
    ELSE CsvScan(text, k + 1, rows, fields, Append(field, text[k]),
                 FALSE, saw_quote)

\* The rows of fields the server reads from the lines of a COPY into a table
\* of ncolumns columns: the text must end outside quotes and every row must
\* have one field per column.
CsvRead(lines, ncolumns) ==
    LET scan == CsvScan(Flatten(lines), 1, <<>>, <<>>, <<>>, FALSE, FALSE)
    IN  IF ~scan.ok THEN scan
        ELSE IF \E i \in 1..Len(scan.rows) : Len(scan.rows[i]) # ncolumns
        THEN [ok |-> FALSE, rows |-> <<>>, error |-> "BadCopyFileFormat"]
        ELSE scan

\* The attributes of a record that can be None in a reload: identifiers and
\* types are results of int() and enum lookups, a geometry can be absent.
IsNone(record, column) == column = "geometry" /\ record[column] = Null

\* COPY of the records into the table, one statement: all rows or none.
CopyToTable(d, table, records) ==
    LET pk == PrimaryKey(table)
        rows == {records[i] : i \in 1..Len(records)}
    IN  IF ~d[table].exists THEN Err(d, "UndefinedTable")
        ELSE IF \E i \in 1..Len(records) :
                    \E c \in NotNullColumns(table) : IsNone(records[i], c)
             THEN Err(d, "NotNullViolation")
        ELSE IF \/ \E i, j \in 1..Len(records) :
                        i # j /\ records[i][pk] = records[j][pk]
                \/ \E i \in 1..Len(records) :
                        \E r \in d[table].rows : r[pk] = records[i][pk]
             THEN Err(d, "UniqueViolation")
        ELSE Ok([d EXCEPT ![table].rows = @ \cup rows])

\* ------------------------------------------------------------ the face pass
\* A Python dict is a sequence of entries in insertion order.
DictHas(map, key) == \E i \in 1..Len(map) : map[i].building_solid_id = key

DictIndex(map, key) == CHOOSE i \in 1..Len(map) : map[i].building_solid_id = key

\* read_building_solid: the solid of that id, created with no geometry when it
\* is not in the map yet.  Returns the parsed id and the map.
read_building_solid(building_solid_map, building_solid_id) ==
    LET building_id == read_inspire_id(building_solid_id, BUILDING_SOLID)
    IN  IF ~building_id.ok
        THEN [ok |-> FALSE, id |-> 0, map |-> building_solid_map]
        ELSE IF DictHas(building_solid_map, building_id.value)
        THEN [ok |-> TRUE, id |-> building_id.value, map |-> building_solid_map]
        ELSE [ok |-> TRUE, id |-> building_id.value,
              map |-> Append(building_solid_map,
                             [building_solid_id |-> building_id.value,
                              geometry |-> Null])]

\* The iteration with the point of a solid set by a face of any kind.
FaceStepEveryFaceSetsPoint(map, rec) ==
    LET solid == read_building_solid(map, rec.building_solid_id)
        face_id == read_inspire_id(rec.inspire_id, BUILDING_FACE)
    IN  IF ~solid.ok \/ ~face_id.ok
        THEN [ok |-> FALSE, map |-> solid.map, face |-> Null]
        ELSE [ok |-> TRUE,
              map |-> [solid.map EXCEPT
                          ![DictIndex(solid.map, solid.id)].geometry =
                              Centroid(rec.geometry)],
              face |-> [id |-> rec.id,
                        building_face_id |-> face_id.value,
                        building_solid_id |-> solid.id,
                        type |-> rec.type,
                        geometry |-> rec.geometry]]

\* The iteration with the point of a solid set by its first ground face only.
FaceStepKeepsFirstPoint(map, rec) ==
    LET solid == read_building_solid(map, rec.building_solid_id)
        face_id == read_inspire_id(rec.inspire_id, BUILDING_FACE)
        at == DictIndex(solid.map, solid.id)
    IN  IF ~solid.ok \/ ~face_id.ok
        THEN [ok |-> FALSE, map |-> solid.map, face |-> Null]
        ELSE [ok |-> TRUE,
              map |-> IF rec.type = GROUNDSURFACE /\ solid.map[at].geometry = Null
                      THEN [solid.map EXCEPT ![at].geometry = Centroid(rec.geometry)]
                      ELSE solid.map,
              face |-> [id |-> rec.id,
                        building_face_id |-> face_id.value,
                        building_solid_id |-> solid.id,
                        type |-> rec.type,
                        geometry |-> rec.geometry]]

\* One iteration of the loop of read_building_faces on source record rec:
\* the map after it and the face it yields.  solid and face_id are the two
\* results of the iteration, each computed once.
FaceStep(map, rec) ==
    CHOOSE out \in
      { IF ~solid.ok \/ ~face_id.ok
        THEN [ok |-> FALSE, map |-> solid.map, face |-> Null]
        ELSE [ok |-> TRUE,
              map |-> IF rec.type = GROUNDSURFACE
                      THEN [solid.map EXCEPT
                                ![DictIndex(solid.map, solid.id)].geometry =
                                    Centroid(rec.geometry)]
                      ELSE solid.map,
              face |-> [id |-> rec.id,
                        building_face_id |-> face_id.value,
                        building_solid_id |-> solid.id,
                        type |-> rec.type,
                        geometry |-> rec.geometry]] :
          solid \in {read_building_solid(map, rec.building_solid_id)},
          face_id \in {read_inspire_id(rec.inspire_id, BUILDING_FACE)} } : TRUE

\* read_building_faces consumed to its end, from record k on: the faces
\* yielded and the solid map filled on the way; ok is FALSE when an identifier
\* raised.
RECURSIVE read_building_faces(_, _, _, _)
read_building_faces(src, k, map, faces) ==
    IF k > Len(src) THEN [ok |-> TRUE, map |-> map, faces |-> faces]
    ELSE CHOOSE out \in
             { IF ~step.ok THEN [ok |-> FALSE, map |-> step.map, faces |-> faces]
               ELSE read_building_faces(src, k + 1, step.map,
                                        Append(faces, step.face)) :
                   step \in {FaceStep(map, src[k])} } : TRUE

\* The loop over building_solids.items() that fills to_remove, from entry k
\* on: an exception of the test is swallowed and the loop goes on.
RECURSIVE FilterLoop(_, _, _, _, _)
FilterLoop(solids, polygons, k, removed, degenerateRaises) ==
    IF k > Len(solids) THEN removed
    ELSE LET outcome == ExclusionTest(solids[k].geometry, polygons,
                                      degenerateRaises)
         IN  FilterLoop(solids, polygons, k + 1,
                        IF outcome = "match"
                        THEN removed \cup {solids[k].building_solid_id}
                        ELSE removed,
                        degenerateRaises)

\* The solids whose exclusion test raises.
RaisedTests(solids, polygons, degenerateRaises) ==
    {solids[k].building_solid_id : k \in
        {i \in 1..Len(solids) :
            ExclusionTest(solids[i].geometry, polygons, degenerateRaises)
                = "raised"}}

\* The ForbiddenAreaTMP rows built from enumerate(forbidden_areas_polygons).
ForbiddenRows(polygons) ==
    [i \in 1..Len(polygons) |-> [id |-> i - 1, geometry |-> polygons[i]]]

\* ------------------------------------------- the parcel_and_building group
\* Bounds of its source streams.
MaxAddresses == 2
MaxParcels == 1

\* InspireBaseURI members of the group, shortened to two characters.
ADDRESS == <<"a", "/">>
BLOCK == <<"k", "/">>
BUILDING == <<"b", "/">>
CADASTRAL_PARCEL == <<"c", "/">>
MUNICIPALITY == <<"m", "/">>
STREET_NAME == <<"n", "/">>

\* An optional integer: None is the empty sequence, a value a sequence of one.
NoneInt == <<>>
Some(v) == <<v>>

\* A dict of the reload: entries [key, value] in insertion order.
HasKey(dict, key) == \E i \in 1..Len(dict) : dict[i].key = key

\* dict.get(key): None when the key is absent.
DictGet(dict, key) ==
    IF HasKey(dict, key)
    THEN Some(dict[CHOOSE i \in 1..Len(dict) : dict[i].key = key].value)
    ELSE NoneInt

\* dict[key] = value: the entry is replaced in place, or appended.
DictPut(dict, key, value) ==
    IF HasKey(dict, key)
    THEN [i \in 1..Len(dict) |->
            IF dict[i].key = key THEN [key |-> key, value |-> value] ELSE dict[i]]
    ELSE Append(dict, [key |-> key, value |-> value])

\* dict.values()
DictValues(dict) == [i \in 1..Len(dict) |-> dict[i].value]

\* str.lower on the words of the names of the sources; any other character
\* is left as it is.
Lower(c) ==
    CASE c = "rue A" -> "rue a"
      [] c = "rue B" -> "rue b"
      [] OTHER -> c

\* re.sub(r'\s+', ' ', s): every run of whitespace becomes one blank.
RECURSIVE CollapseWhitespace(_)
CollapseWhitespace(s) ==
    IF s = <<>> THEN <<>>
    ELSE IF Head(s) \in {" ", TAB, NL}
    THEN IF Len(s) > 1 /\ s[2] \in {" ", TAB, NL}
         THEN CollapseWhitespace(Tail(s))
         ELSE <<" ">> \o CollapseWhitespace(Tail(s))
    ELSE <<Head(s)>> \o CollapseWhitespace(Tail(s))

\* _norm of parsers/address.py on the names of the sources, none of which
\* holds an accent or an abbreviation: lower case, whitespace collapsed and
\* stripped.
_norm(s) == Strip(CollapseWhitespace([i \in 1..Len(s) |-> Lower(s[i])]))

\* is_null_or_whitespace / is_valid_inspire_id
is_null_or_whitespace(value) == value = NoneText \/ Strip(value) = <<>>

\* The test without its look at the last character.
is_valid_inspire_id_any_ending(value) == ~is_null_or_whitespace(value)

is_valid_inspire_id(value) ==
    IF is_null_or_whitespace(value) THEN FALSE ELSE value[Len(value)] # "/"

\* An optional reference: parsed when valid, None otherwise.
OptionalId(value, uri_base) ==
    IF is_valid_inspire_id(value)
    THEN LET r == read_inspire_id(value, uri_base)
         IN  [ok |-> r.ok, value |-> Some(r.value)]
    ELSE [ok |-> TRUE, value |-> NoneInt]

\* read_cadastral_parcels consumed to its end, from record k on: the rows
\* yielded and the key -> id dict filled on the way; ok is FALSE when an
\* identifier raised.
RECURSIVE read_cadastral_parcels(_, _, _, _)
read_cadastral_parcels(src, k, capa, rows) ==
    IF k > Len(src) THEN [ok |-> TRUE, capa |-> capa, rows |-> rows]
    ELSE LET cadastral_parcel_id ==
                 read_inspire_id(src[k].inspire_id, CADASTRAL_PARCEL)
         IN  IF ~cadastral_parcel_id.ok
             THEN [ok |-> FALSE, capa |-> capa, rows |-> rows]
             ELSE read_cadastral_parcels(src, k + 1,
                      DictPut(capa, src[k].capakey, cadastral_parcel_id.value),
                      Append(rows,
                          [id |-> src[k].id,
                           cadastral_parcel_id |-> cadastral_parcel_id.value,
                           cadastral_parcel_key |-> src[k].capakey]))

\* The iteration with the entity of an id replaced at every sighting.
AddressStepLastWins(capa, muns, strs, rec) ==
    LET municipality_id == read_inspire_id(rec.munnis_code, MUNICIPALITY)
        street_id == read_inspire_id(rec.street_id, STREET_NAME)
        address_id == read_inspire_id(rec.inspire_id, ADDRESS)
    IN  IF ~(municipality_id.ok /\ street_id.ok /\ address_id.ok)
        THEN [ok |-> FALSE, muns |-> muns, strs |-> strs, row |-> Null]
        ELSE [ok |-> TRUE,
              muns |-> DictPut(muns, municipality_id.value,
                          [municipality_id |-> municipality_id.value,
                           municipality_name_french |-> rec.munname_fre]),
              strs |-> DictPut(strs, street_id.value,
                          [street_id |-> street_id.value,
                           street_name_french |-> rec.strname_fre,
                           cleaned_street_name_french |->
                              _norm(rec.strname_fre)]),
              row |-> [id |-> rec.id,
                       address_id |-> address_id.value,
                       street_id |-> street_id.value,
                       municipality_id |-> municipality_id.value,
                       parent_id |-> NoneInt,
                       cadastral_parcel_id |-> DictGet(capa, rec.capakey),
                       building_id |-> NoneInt]]

\* One iteration of the loop of read_addresses on source record rec.
AddressStep(capa, muns, strs, rec) ==
    LET municipality_id == read_inspire_id(rec.munnis_code, MUNICIPALITY)
        muns1 == IF municipality_id.ok /\ ~HasKey(muns, municipality_id.value)
                 THEN Append(muns,
                        [key |-> municipality_id.value,
                         value |-> [municipality_id |-> municipality_id.value,
                                    municipality_name_french |-> rec.munname_fre]])
                 ELSE muns
        street_id == read_inspire_id(rec.street_id, STREET_NAME)
        strs1 == IF street_id.ok /\ ~HasKey(strs, street_id.value)
                 THEN Append(strs,
                        [key |-> street_id.value,
                         value |-> [street_id |-> street_id.value,
                                    street_name_french |-> rec.strname_fre,
                                    cleaned_street_name_french |->
                                       _norm(rec.strname_fre)]])
                 ELSE strs
        address_id == read_inspire_id(rec.inspire_id, ADDRESS)
        parent_id == OptionalId(rec.parent_id, ADDRESS)
        building_id == OptionalId(rec.bu_id, BUILDING)
    IN  IF ~(municipality_id.ok /\ street_id.ok /\ address_id.ok
             /\ parent_id.ok /\ building_id.ok)
        THEN [ok |-> FALSE, muns |-> muns, strs |-> strs, row |-> Null]
        ELSE [ok |-> TRUE, muns |-> muns1, strs |-> strs1,
              row |-> [id |-> rec.id,
                       address_id |-> address_id.value,
                       street_id |-> street_id.value,
                       municipality_id |-> municipality_id.value,
                       parent_id |-> parent_id.value,
                       cadastral_parcel_id |-> DictGet(capa, rec.capakey),
                       building_id |-> building_id.value]]

\* read_addresses consumed to its end, from record k on.
RECURSIVE read_addresses(_, _, _, _, _, _)
read_addresses(src, k, capa, muns, strs, rows) ==
    IF k > Len(src)
    THEN [ok |-> TRUE, muns |-> muns, strs |-> strs, rows |-> rows]
    ELSE LET step == AddressStep(capa, muns, strs, src[k])
         IN  IF ~step.ok
             THEN [ok |-> FALSE, muns |-> muns, strs |-> strs, rows |-> rows]
             ELSE read_addresses(src, k + 1, capa, step.muns, step.strs,
                                 Append(rows, step.row))

\* read_buildings consumed to its end, from record k on.
RECURSIVE read_buildings(_, _, _)
read_buildings(src, k, rows) ==
    IF k > Len(src) THEN [ok |-> TRUE, rows |-> rows]
    ELSE LET building_id == read_inspire_id(src[k].inspire_id, BUILDING)
             block_id == OptionalId(src[k].block_id, BLOCK)
         IN  IF ~(building_id.ok /\ block_id.ok)
             THEN [ok |-> FALSE, rows |-> rows]
             ELSE read_buildings(src, k + 1,
                      Append(rows, [id |-> src[k].id,
                                    building_id |-> building_id.value,
                                    block_id |-> block_id.value]))

\* tmp_table_associations of load_parcel_and_building, in dict order.
pb_ActiveTables ==
    <<"address", "building", "cadastral_parcel", "municipality", "street">>

pb_tmp_table_associations ==
    [i \in 1..Len(pb_ActiveTables) |->
        [tmp |-> TmpName(pb_ActiveTables[i]), table |-> pb_ActiveTables[i]]]

pb_ActiveNames == {pb_ActiveTables[i] : i \in 1..Len(pb_ActiveTables)}
pb_TableNames == pb_ActiveNames \cup {TmpName(t) : t \in pb_ActiveNames}

\* associated_indexes of load_parcel_and_building.
pb_associated_indexes(tmp_table) ==
    CASE tmp_table = "address_tmp" ->
            << <<"address_id">>, <<"street_id">>, <<"l72">> >>
      [] tmp_table = "building_tmp" -> << <<"building_id">>, <<"geometry">> >>
      [] tmp_table = "cadastral_parcel_tmp" ->
            << <<"cadastral_parcel_id">>, <<"geometry">> >>
      [] OTHER -> << >>

\* The store of the group after start-up (lifespan's create_all).
pb_InitialDb ==
    [t \in pb_TableNames |-> EmptyTable(0, makeObjectName(t, "pkey", 0))]

\* ------------------------------------------------------------------ sources
SolidUris == {BUILDING_SOLID \o <<"1">>, BUILDING_SOLID \o <<"2">>}

FaceKinds ==
    {[type |-> WALLSURFACE, geometry |-> "polyB"]}
        \cup {[type |-> GROUNDSURFACE, geometry |-> g] : g \in Shapes}

SourceFace(k, uri, kind) ==
    [id |-> k,
     inspire_id |-> BUILDING_FACE \o <<Digits[k + 1]>>,
     building_solid_id |-> uri,
     type |-> kind.type,
     geometry |-> kind.geometry]

\* Every face stream of at most maxLen records.
Sources(maxLen) ==
    UNION {{[k \in 1..n |-> SourceFace(k, f[k][1], f[k][2])] :
                f \in [1..n -> SolidUris \X FaceKinds]} : n \in 0..maxLen}

\* The source streams of the parcel_and_building group.
ParcelKinds ==
    {[inspire_id |-> CADASTRAL_PARCEL \o <<"1">>, capakey |-> "kA"],
     [inspire_id |-> CADASTRAL_PARCEL \o <<"2">>, capakey |-> "kA"],
     [inspire_id |-> CADASTRAL_PARCEL \o <<"2">>, capakey |-> "kB"],
     [inspire_id |-> CADASTRAL_PARCEL, capakey |-> "kB"]}

DimensionKinds ==
    {[street_id |-> STREET_NAME \o <<"1">>, strname_fre |-> <<"rue A">>,
      munnis_code |-> MUNICIPALITY \o <<"1">>, munname_fre |-> <<"Ville A">>],
     [street_id |-> STREET_NAME \o <<"1">>, strname_fre |-> <<"rue B">>,
      munnis_code |-> MUNICIPALITY \o <<"1">>, munname_fre |-> <<"Ville B">>],
     [street_id |-> STREET_NAME \o <<"2">>, strname_fre |-> <<"rue A">>,
      munnis_code |-> MUNICIPALITY \o <<"1">>, munname_fre |-> <<"Ville A">>]}

AddressKinds ==
    {[dimensions |-> d, capakey |-> key] :
        d \in DimensionKinds, key \in {"kA", "kC"}}
    \cup {[dimensions |->
              [street_id |-> <<"1">>, strname_fre |-> <<"rue A">>,
               munnis_code |-> MUNICIPALITY \o <<"1">>,
               munname_fre |-> <<"Ville A">>],
           capakey |-> "kA"],
          [dimensions |->
              [street_id |-> STREET_NAME \o <<"1">>, strname_fre |-> <<"rue A">>,
               munnis_code |-> NoneText, munname_fre |-> <<"Ville A">>],
           capakey |-> "kA"]}

SourceParcel(k, kind) ==
    [id |-> k, inspire_id |-> kind.inspire_id, capakey |-> kind.capakey]

SourceAddress(k, kind) ==
    [id |-> k,
     inspire_id |-> ADDRESS \o <<Digits[k + 1]>>,
     street_id |-> kind.dimensions.street_id,
     strname_fre |-> kind.dimensions.strname_fre,
     munnis_code |-> kind.dimensions.munnis_code,
     munname_fre |-> kind.dimensions.munname_fre,
     capakey |-> kind.capakey,
     parent_id |-> NoneText,
     bu_id |-> NoneText]

BuildingStreams ==
    {<<>>,
     <<[id |-> 1, inspire_id |-> BUILDING \o <<"1">>, block_id |-> NoneText]>>,
     <<[id |-> 1, inspire_id |-> BUILDING, block_id |-> NoneText]>>}

ParcelSources ==
    {[parcels |-> [k \in 1..Len(f) |-> SourceParcel(k, f[k])],
      addresses |-> [k \in 1..Len(g) |-> SourceAddress(k, g[k])],
      buildings |-> b] :
        f \in UNION {[1..n -> ParcelKinds] : n \in 0..MaxParcels},
        g \in UNION {[1..m -> AddressKinds] : m \in 0..MaxAddresses},
        b \in BuildingStreams}

\* -------------------------------------------------------------------- state
\* The reload requests being served (load_3d_construction calls): two request
\* slots, a request taking the first free one.
Reloads == {"r1", "r2"}

FirstSlots(p) == IF p = "r2" THEN {"r1"} ELSE {}

VARIABLES
    source,           \* the face stream of the source package
    forbidden_dir,    \* the polygons of the forbidden-areas directory
    db,               \* committed state of the store: table name -> table
    pc,               \* position of each reload in load_3d_construction
    run,              \* number of the reload each request is serving
    runs,             \* reloads started so far
    building_solids,  \* the building_solids dict of each reload
    to_remove,        \* the to_remove set of each reload
    counters,         \* building_face_count / building_solid_count
    error,            \* the exception that ended each reload and the step
                      \* that raised it
    error_log,        \* the exclusion-test errors the engine has recorded
    raised,           \* history: solids whose exclusion test raised, per reload
    active_before,    \* history: rows of the active tables when each reload
                      \* began
    uri,              \* read_inspire_id: the text given
    parsed,           \* read_inspire_id: its outcome
    site,             \* the attribute of a source record the text is read from
    previous_error,   \* history: whether the reload served before this one
                      \* failed, before its swap or in it ("none": it did not)
    pb_source,        \* parcel_and_building: the three source streams
    pb_db,            \* parcel_and_building: committed state of its schema
    pb_pc,            \* position of the reload in load_parcel_and_building
    capa_key_to_capa_inspire_id,  \* its parcel key -> parcel id dict
    municipalities,   \* its municipalities dict
    streets,          \* its streets dict
    pb_counters,      \* its counters dict
    pb_error,         \* the exception that ended it and the step that raised it
    shape,            \* centroid: the multi-polygon of a ground-surface face
    centroid,         \* centroid: the function applied and the point it gave
    bi_records,       \* bulk_insert: the records its iterable yields
    bi_pc,            \* bulk_insert: position of the call
    bi_pulled,        \* bulk_insert: records taken by next(self.records)
    bi_obj,           \* bulk_insert: the record __anext__ is turning into a line
    bi_count,         \* bulk_insert: gen.count
    bi_handed,        \* bulk_insert: the lines __anext__ returned to the COPY
    bi_written,       \* bulk_insert: lines the COPY has written to the server
    bi_result,        \* bulk_insert: the count returned, or the exception
    bi_copied         \* bulk_insert: the rows the server read from the lines

parcel_vars == <<pb_source, pb_db, pb_pc, capa_key_to_capa_inspire_id,
                 municipalities, streets, pb_counters, pb_error>>

geometry_vars == <<shape, centroid>>

stream_vars == <<bi_records, bi_pc, bi_pulled, bi_obj, bi_count, bi_handed,
                 bi_written, bi_result, bi_copied>>

vars == <<source, forbidden_dir, db, pc, run, runs, building_solids, to_remove,
          counters, error, error_log, raised, active_before, uri, parsed, site,
          previous_error, parcel_vars, geometry_vars, stream_vars>>

NotComputed == [by |-> "none", point |-> <<>>]

\* No centroid is being computed.
GeometryIdle ==
    /\ shape = <<>>
    /\ centroid = NotComputed

NoResult == [kind |-> "none", count |-> 0]

\* The server has read no row.
NotCopied == [ok |-> FALSE, rows |-> <<>>, error |-> "none"]

\* bulk_insert has not been called.
StreamNotStarted ==
    /\ bi_pc = "idle"
    /\ bi_pulled = 0
    /\ bi_obj = <<>>
    /\ bi_count = 0
    /\ bi_handed = <<>>
    /\ bi_written = 0
    /\ bi_result = NoResult
    /\ bi_copied = NotCopied

StreamIdle ==
    /\ bi_records = <<>>
    /\ StreamNotStarted

input_vars == <<source, forbidden_dir>>
parse_vars == <<uri, parsed, site>>
local_vars == <<building_solids, to_remove, counters, raised>>

NoCounters == [building_face |-> 0, building_solid |-> 0]
NoError == [kind |-> "none", step |-> "none"]
NotParsed == [done |-> FALSE, base |-> <<>>, ok |-> FALSE, value |-> 0]

\* No attribute is being read.
NoSite == [attribute |-> "none", uri_base |-> <<>>, optional |-> FALSE]

\* The rows a reader finds in the active tables.
ActiveRows(d) == [t \in ActiveNames |-> d[t].rows]

\* The store after start-up: lifespan's create_all has created every mapped
\* table, the shadow ones included, all empty.
InitialDb == [t \in TableNames |-> EmptyTable(0, makeObjectName(t, "pkey", 0))]

NoParcelSource == [parcels |-> <<>>, addresses |-> <<>>, buildings |-> <<>>]

\* load_parcel_and_building has not been called: the state of its group after
\* start-up.
ParcelStartUp ==
    /\ pb_db = pb_InitialDb
    /\ pb_pc = "idle"
    /\ capa_key_to_capa_inspire_id = <<>>
    /\ municipalities = <<>>
    /\ streets = <<>>
    /\ pb_counters = <<>>
    /\ pb_error = NoError

ParcelIdle ==
    /\ pb_source = NoParcelSource
    /\ ParcelStartUp

InitWith(sources, directories) ==
    /\ source \in sources
    /\ forbidden_dir \in directories
    /\ db = InitialDb
    /\ pc = [p \in Reloads |-> "idle"]
    /\ run = [p \in Reloads |-> 0]
    /\ runs = 0
    /\ building_solids = [p \in Reloads |-> <<>>]
    /\ to_remove = [p \in Reloads |-> {}]
    /\ counters = [p \in Reloads |-> NoCounters]
    /\ error = [p \in Reloads |-> NoError]
    /\ error_log = {}
    /\ raised = [p \in Reloads |-> {}]
    /\ active_before = [p \in Reloads |-> ActiveRows(InitialDb)]
    /\ uri = <<>>
    /\ parsed = NotParsed
    /\ site = NoSite
    /\ previous_error = "none"
    /\ ParcelIdle
    /\ GeometryIdle
    /\ StreamIdle

\* ---------------------------------------------------- statements of a reload
\* The stage step with the DROP of its first table only.
CreateTablesStmtsFirstDropOnly(r) ==
    Flatten([i \in 1..Len(tmp_table_associations) |->
        IF i = 1
        THEN << Stmt("drop_if_exists", tmp_table_associations[i].tmp, r),
                Stmt("create_if_absent", tmp_table_associations[i].tmp, r) >>
        ELSE << Stmt("create_if_absent", tmp_table_associations[i].tmp, r) >>])

\* The stage step without its DROP.
CreateTablesStmtsNoDrop(r) ==
    [i \in 1..Len(tmp_table_associations) |->
        Stmt("create_if_absent", tmp_table_associations[i].tmp, r)]

\* _create_tables: drop and create every shadow table.
CreateTablesStmts(r) ==
    Flatten([i \in 1..Len(tmp_table_associations) |->
        << Stmt("drop_if_exists", tmp_table_associations[i].tmp, r),
           Stmt("create_if_absent", tmp_table_associations[i].tmp, r) >>])

\* The cascade aimed at the active tables.
DeleteStmtsOnActive(removed) ==
    << Stmt("delete_solids", "building_solid", removed),
       Stmt("delete_solids", "building_face", removed) >>

\* The cascade without its second DELETE.
DeleteStmtsSolidsOnly(removed) ==
    << Stmt("delete_solids", "building_solid_tmp", removed) >>

\* The cascade without its first DELETE.
DeleteStmtsFacesOnly(removed) ==
    << Stmt("delete_solids", "building_face_tmp", removed) >>

\* The two DELETE statements of the forbidden-zone cascade.
DeleteStmts(removed) ==
    << Stmt("delete_solids", "building_solid_tmp", removed),
       Stmt("delete_solids", "building_face_tmp", removed) >>

\* Index build aimed at the active tables.
CreateIndexesStmtsOnActive ==
    Flatten([i \in 1..Len(tmp_table_associations) |->
        LET table == tmp_table_associations[i].table
            descriptions == associated_indexes(tmp_table_associations[i].tmp)
        IN  [j \in 1..Len(descriptions) |->
                Stmt("create_index", get_index_name(table, descriptions[j]),
                     table)]])

\* _create_indexes: one CREATE INDEX per index description.
CreateIndexesStmts ==
    Flatten([i \in 1..Len(tmp_table_associations) |->
        LET tmp == tmp_table_associations[i].tmp
            descriptions == associated_indexes(tmp)
        IN  [j \in 1..Len(descriptions) |->
                Stmt("create_index", get_index_name(tmp, descriptions[j]), tmp)]])

\* The swap with the indexes of the first table only renamed.
ReplaceTablesStmtsFirstTableIndexesOnly ==
    Flatten([i \in 1..Len(tmp_table_associations) |->
        LET tmp == tmp_table_associations[i].tmp
            table == tmp_table_associations[i].table
            descriptions == IF i = 1 THEN associated_indexes(tmp) ELSE << >>
        IN  << Stmt("drop", table, Null), Stmt("rename_table", tmp, table) >>
            \o [j \in 1..Len(descriptions) |->
                    Stmt("rename_index", get_index_name(tmp, descriptions[j]),
                         get_index_name(table, descriptions[j]))]])

\* The swap without the renaming of the indexes.
ReplaceTablesStmtsNoIndexRename ==
    Flatten([i \in 1..Len(tmp_table_associations) |->
        << Stmt("drop", tmp_table_associations[i].table, Null),
           Stmt("rename_table", tmp_table_associations[i].tmp,
                tmp_table_associations[i].table) >>])

\* _replace_tables: per table DROP the active one, RENAME the shadow one, RENAME
\* its indexes.
ReplaceTablesStmts ==
    Flatten([i \in 1..Len(tmp_table_associations) |->
        LET tmp == tmp_table_associations[i].tmp
            table == tmp_table_associations[i].table
            descriptions == associated_indexes(tmp)
        IN  << Stmt("drop", table, Null), Stmt("rename_table", tmp, table) >>
            \o [j \in 1..Len(descriptions) |->
                    Stmt("rename_index", get_index_name(tmp, descriptions[j]),
                         get_index_name(table, descriptions[j]))]])

\* ------------------------------------------------------------------ actions
Running(p) == pc[p] \notin {"idle", "done", "failed"}

\* The calls of load_3d_construction before _replace_tables.
PreSwapSteps ==
    {"create_tables", "load_faces", "load_solids", "load_forbidden", "delete",
     "create_indexes"}

\* The reload raises e: its locals are gone, the caller gets the error.
Abort(p, e) ==
    /\ pc' = [pc EXCEPT ![p] = "failed"]
    /\ error' = [error EXCEPT ![p] = [kind |-> e, step |-> pc[p]]]
    /\ raised' = [raised EXCEPT ![p] = {}]
    /\ active_before' = [active_before EXCEPT ![p] = ActiveRows(InitialDb)]
    /\ building_solids' = [building_solids EXCEPT ![p] = <<>>]
    /\ to_remove' = [to_remove EXCEPT ![p] = {}]
    /\ counters' = [counters EXCEPT ![p] = NoCounters]

Goto(p, label) ==
    /\ pc' = [pc EXCEPT ![p] = label]
    /\ active_before' =
          IF label = "done"
          THEN [active_before EXCEPT ![p] = ActiveRows(InitialDb)]
          ELSE active_before
    /\ UNCHANGED error

\* A reload request arrives.
Begin(p) ==
    /\ ~Running(p)
    /\ \A q \in FirstSlots(p) : Running(q)
    /\ runs < MaxRuns
    /\ runs' = runs + 1
    /\ run' = [run EXCEPT ![p] = runs + 1]
    /\ pc' = [pc EXCEPT ![p] = "create_tables"]
    /\ error' = [error EXCEPT ![p] = NoError]
    /\ building_solids' = [building_solids EXCEPT ![p] = <<>>]
    /\ to_remove' = [to_remove EXCEPT ![p] = {}]
    /\ counters' = [counters EXCEPT ![p] = NoCounters]
    /\ raised' = [raised EXCEPT ![p] = {}]
    /\ active_before' = [active_before EXCEPT ![p] = ActiveRows(db)]
    /\ UNCHANGED <<input_vars, db, error_log, parse_vars, parcel_vars,
                   geometry_vars, stream_vars>>

\* A reload request arrives, whether or not another reload is being served.
Start(p) ==
    /\ Begin(p)
    /\ UNCHANGED previous_error

\* A reload request arrives when no other reload is being served (the single
\* writer the engine assumes).
StartAlone(p) ==
    /\ \A q \in Reloads : ~Running(q)
    /\ Begin(p)
    /\ previous_error' =
          IF pc[p] # "failed" THEN "none"
          ELSE IF error[p].step \in PreSwapSteps THEN "before_swap" ELSE "swap"

\* The call allowed only while no other reload is between its stage step and
\* the end of its swap.
MayStageUnderLock(p) ==
    /\ pc[p] = "create_tables"
    /\ \A q \in Reloads \ {p} :
          pc[q] \notin (PreSwapSteps \ {"create_tables"}) \cup {"replace_tables"}

\* When the handler makes its call of _create_tables: as soon as it is there;
\* it takes no lock and looks at no other request.
MayStage(p) == pc[p] = "create_tables"

\* await _create_tables(...)
CreateTables(p) ==
    /\ MayStage(p)
    /\ \E stmts \in {CreateTablesStmts(run[p])} :
          \E failAt \in 0..Len(stmts) :
              \E tx \in {RunTransaction(db, stmts, failAt)} :
                  /\ db' = tx.db
                  /\ IF tx.ok
                     THEN Goto(p, "load_faces") /\ UNCHANGED local_vars
                     ELSE Abort(p, tx.error)
    /\ UNCHANGED <<input_vars, run, runs, error_log, parse_vars,
                   previous_error, parcel_vars, geometry_vars, stream_vars>>

\* await bulk_insert(BuildingFaceTMP, ..., read_building_faces(building_solids))
LoadFaces(p) ==
    /\ pc[p] = "load_faces"
    /\ \E fault \in BOOLEAN :
        \E pass \in {read_building_faces(source, 1, <<>>, <<>>)} :
          \E copy \in {CopyToTable(db, "building_face_tmp", pass.faces)} :
              IF fault THEN Abort(p, "OperationalError") /\ UNCHANGED db
              ELSE IF ~pass.ok THEN Abort(p, "ValueError") /\ UNCHANGED db
              ELSE IF ~copy.ok THEN Abort(p, copy.error) /\ UNCHANGED db
              ELSE /\ db' = copy.db
                   /\ building_solids' = [building_solids EXCEPT ![p] = pass.map]
                   /\ counters' = [counters EXCEPT
                                      ![p].building_face = Len(pass.faces)]
                   /\ Goto(p, "load_solids")
                   /\ UNCHANGED <<to_remove, raised>>
    /\ UNCHANGED <<input_vars, run, runs, error_log, parse_vars,
                   previous_error, parcel_vars, geometry_vars, stream_vars>>

\* The call left out: the reload goes on to the forbidden areas with no solid
\* loaded.
LoadSolidsLeftOut(p) ==
    /\ pc[p] = "load_solids"
    /\ Goto(p, "load_forbidden")
    /\ UNCHANGED <<db, local_vars>>
    /\ UNCHANGED <<input_vars, run, runs, error_log, parse_vars,
                   previous_error, parcel_vars, geometry_vars, stream_vars>>

\* await bulk_insert(BuildingSolidTMP, ..., building_solids.values())
LoadSolids(p) ==
    /\ pc[p] = "load_solids"
    /\ \E fault \in BOOLEAN :
          LET copy == CopyToTable(db, "building_solid_tmp", building_solids[p])
          IN  IF fault THEN Abort(p, "OperationalError") /\ UNCHANGED db
              ELSE IF ~copy.ok THEN Abort(p, copy.error) /\ UNCHANGED db
              ELSE /\ db' = copy.db
                   /\ counters' = [counters EXCEPT
                                      ![p].building_solid = Len(building_solids[p])]
                   /\ Goto(p, "load_forbidden")
                   /\ UNCHANGED <<building_solids, to_remove, raised>>
    /\ UNCHANGED <<input_vars, run, runs, error_log, parse_vars,
                   previous_error, parcel_vars, geometry_vars, stream_vars>>

\* await bulk_insert(ForbiddenAreaTMP, ...), then the loop that fills to_remove
\* (no await in it: it runs to its end before the next statement is sent).
LoadForbidden(p) ==
    /\ pc[p] = "load_forbidden"
    /\ \E fault \in BOOLEAN, degenerateRaises \in BOOLEAN :
          LET copy == CopyToTable(db, "forbidden_area_tmp",
                                  ForbiddenRows(forbidden_dir))
          IN  IF fault THEN Abort(p, "OperationalError") /\ UNCHANGED db
              ELSE IF ~copy.ok THEN Abort(p, copy.error) /\ UNCHANGED db
              ELSE /\ db' = copy.db
                   /\ to_remove' = [to_remove EXCEPT ![p] =
                          FilterLoop(building_solids[p], forbidden_dir, 1, {},
                                     degenerateRaises)]
                   /\ raised' = [raised EXCEPT ![p] =
                          RaisedTests(building_solids[p], forbidden_dir,
                                      degenerateRaises)]
                   /\ Goto(p, "delete")
                   /\ UNCHANGED <<building_solids, counters>>
    /\ UNCHANGED <<input_vars, run, runs, error_log, parse_vars,
                   previous_error, parcel_vars, geometry_vars, stream_vars>>

\* The transaction with the two DELETEs.
DeleteExcluded(p) ==
    /\ pc[p] = "delete"
    /\ LET stmts == DeleteStmts(to_remove[p])
       IN  \E failAt \in 0..Len(stmts) :
              LET tx == RunTransaction(db, stmts, failAt)
              IN  /\ db' = tx.db
                  /\ IF tx.ok
                     THEN Goto(p, "create_indexes") /\ UNCHANGED local_vars
                     ELSE Abort(p, tx.error)
    /\ UNCHANGED <<input_vars, run, runs, error_log, parse_vars,
                   previous_error, parcel_vars, geometry_vars, stream_vars>>

\* await _create_indexes(...)
CreateIndexes(p) ==
    /\ pc[p] = "create_indexes"
    /\ LET stmts == CreateIndexesStmts
       IN  \E failAt \in 0..Len(stmts) :
              LET tx == RunTransaction(db, stmts, failAt)
              IN  /\ db' = tx.db
                  /\ IF tx.ok
                     THEN Goto(p, "replace_tables") /\ UNCHANGED local_vars
                     ELSE Abort(p, tx.error)
    /\ UNCHANGED <<input_vars, run, runs, error_log, parse_vars,
                   previous_error, parcel_vars, geometry_vars, stream_vars>>

\* await _replace_tables(...), then return the counters.
ReplaceTables(p) ==
    /\ pc[p] = "replace_tables"
    /\ LET stmts == ReplaceTablesStmts
       IN  \E failAt \in 0..Len(stmts) :
              LET tx == RunTransaction(db, stmts, failAt)
              IN  /\ db' = tx.db
                  /\ IF tx.ok
                     THEN /\ Goto(p, "done")
                          /\ building_solids' = [building_solids EXCEPT ![p] = <<>>]
                          /\ to_remove' = [to_remove EXCEPT ![p] = {}]
                          /\ raised' = [raised EXCEPT ![p] = {}]
                          /\ UNCHANGED counters
                     ELSE Abort(p, tx.error)
    /\ UNCHANGED <<input_vars, run, runs, error_log, parse_vars,
                   previous_error, parcel_vars, geometry_vars, stream_vars>>

\* The handler that never returns from the call before the swap.
StepNeverSwaps(p) ==
    \/ CreateTables(p)
    \/ LoadFaces(p)
    \/ LoadSolids(p)
    \/ LoadForbidden(p)
    \/ DeleteExcluded(p)
    \/ CreateIndexes(p)

\* The next awaited call of the handler serving p.
Step(p) ==
    \/ CreateTables(p)
    \/ LoadFaces(p)
    \/ LoadSolids(p)
    \/ LoadForbidden(p)
    \/ DeleteExcluded(p)
    \/ CreateIndexes(p)
    \/ ReplaceTables(p)

\* ------------------------------------------- load_parcel_and_building steps
\* The calls with the address stream read before the parcel stream.
pb_PipelineAddressesFirst ==
    <<"create_tables", "load_addresses", "load_parcels", "load_buildings",
      "load_municipalities", "load_streets", "create_indexes",
      "replace_tables", "done">>

\* The awaited calls of load_parcel_and_building, in program order.
pb_Pipeline ==
    <<"create_tables", "load_parcels", "load_addresses", "load_buildings",
      "load_municipalities", "load_streets", "create_indexes",
      "replace_tables", "done">>

\* The position after the call at position label.
pb_After(label) ==
    pb_Pipeline[(CHOOSE i \in 1..Len(pb_Pipeline) : pb_Pipeline[i] = label) + 1]

pb_CreateTablesStmts(r) ==
    Flatten([i \in 1..Len(pb_tmp_table_associations) |->
        << Stmt("drop_if_exists", pb_tmp_table_associations[i].tmp, r),
           Stmt("create_if_absent", pb_tmp_table_associations[i].tmp, r) >>])

pb_CreateIndexesStmts ==
    Flatten([i \in 1..Len(pb_tmp_table_associations) |->
        LET tmp == pb_tmp_table_associations[i].tmp
            descriptions == pb_associated_indexes(tmp)
        IN  [j \in 1..Len(descriptions) |->
                Stmt("create_index", get_index_name(tmp, descriptions[j]), tmp)]])

pb_ReplaceTablesStmts ==
    Flatten([i \in 1..Len(pb_tmp_table_associations) |->
        LET tmp == pb_tmp_table_associations[i].tmp
            table == pb_tmp_table_associations[i].table
            descriptions == pb_associated_indexes(tmp)
        IN  << Stmt("drop", table, Null), Stmt("rename_table", tmp, table) >>
            \o [j \in 1..Len(descriptions) |->
                    Stmt("rename_index", get_index_name(tmp, descriptions[j]),
                         get_index_name(table, descriptions[j]))]])

pb_Running == pb_pc \notin {"idle", "done", "failed"}

pb_locals == <<capa_key_to_capa_inspire_id, municipalities, streets>>

threed_vars == <<source, forbidden_dir, db, pc, run, runs, building_solids,
                 to_remove, counters, error, error_log, raised, active_before,
                 previous_error, parse_vars>>

\* load_parcel_and_building raises e: its locals are gone, the caller gets the
\* error instead of the counters.
pb_Abort(e) ==
    /\ pb_pc' = "failed"
    /\ pb_error' = [kind |-> e, step |-> pb_pc]
    /\ capa_key_to_capa_inspire_id' = <<>>
    /\ municipalities' = <<>>
    /\ streets' = <<>>
    /\ pb_counters' = <<>>

\* A call of the pipeline completed.
pb_Advance ==
    /\ pb_pc' = pb_After(pb_pc)
    /\ UNCHANGED pb_error

\* A parcel_and_building reload request arrives.
pb_Start ==
    /\ pb_pc = "idle"
    /\ pb_pc' = pb_Pipeline[1]
    /\ UNCHANGED <<pb_source, pb_db, pb_locals, pb_counters, pb_error,
                   threed_vars, geometry_vars, stream_vars>>

\* One of the three transactions of the orchestrator.
pb_Transaction(label, stmts) ==
    /\ pb_pc = label
    /\ \E failAt \in 0..Len(stmts) :
          LET tx == RunTransaction(pb_db, stmts, failAt)
          IN  /\ pb_db' = tx.db
              /\ IF tx.ok
                 THEN pb_Advance /\ UNCHANGED <<pb_locals, pb_counters>>
                 ELSE pb_Abort(tx.error)
    /\ UNCHANGED <<pb_source, threed_vars, geometry_vars, stream_vars>>

\* await _create_tables(...)
pb_CreateTables ==
    /\ pb_Transaction("create_tables", pb_CreateTablesStmts(1))

\* await _create_indexes(...)
pb_CreateIndexes ==
    /\ pb_Transaction("create_indexes", pb_CreateIndexesStmts)

\* await _replace_tables(...), then return counters.
pb_ReplaceTables ==
    /\ pb_Transaction("replace_tables", pb_ReplaceTablesStmts)

\* table_columns of the tables of the group that hold text, as far as the
\* model carries them (the Dutch names are left out; the French ones come
\* after them in the table, the name of a municipality being its last column).
pb_TextTables == {"municipality_tmp", "street_tmp"}

pb_table_columns(table) ==
    IF table = "municipality_tmp"
    THEN <<"municipality_id", "municipality_name_french">>
    ELSE <<"street_id", "street_name_french", "cleaned_street_name_french">>

\* The line __anext__ makes of a street or a municipality: str() of the id,
\* the texts as they are.
pb_LineOf(table, obj) ==
    LET columns == pb_table_columns(table)
    IN  JoinTab([i \in 1..Len(columns) |->
                    IF i = 1 THEN PyStr(obj[columns[i]]) ELSE obj[columns[i]]])
            \o <<NL>>

\* The row the server makes of the fields of a line: the key is an integer,
\* no column accepts NULL.
pb_ServerRow(table, fields) ==
    LET columns == pb_table_columns(table)
    IN  IF \E i \in 1..Len(fields) : fields[i].null
        THEN [ok |-> FALSE, row |-> Null, error |-> "NotNullViolation"]
        ELSE IF \E i \in 1..Len(fields[1].text) : ~IsDigit(fields[1].text[i])
        THEN [ok |-> FALSE, row |-> Null, error |-> "InvalidTextRepresentation"]
        ELSE [ok |-> TRUE,
              row |-> [c \in {columns[i] : i \in 1..Len(columns)} |->
                          LET i == CHOOSE j \in 1..Len(columns) : columns[j] = c
                          IN  IF i = 1 THEN DecimalValue(fields[1].text)
                              ELSE fields[i].text],
              error |-> "none"]

\* copy_to_table of bulk_insert on the tables of the group: the records of a
\* table that holds text reach the server as the lines of AsyncLineIterator,
\* read back as csv; the other tables hold integers and keys, whose text is
\* read back as written.
pb_CopyToTable(d, table, records) ==
    IF table \notin pb_TextTables THEN CopyToTable(d, table, records)
    ELSE LET read == CsvRead([i \in 1..Len(records) |->
                                 pb_LineOf(table, records[i])],
                             Len(pb_table_columns(table)))
             made == [i \in 1..Len(read.rows) |->
                         pb_ServerRow(table, read.rows[i])]
         IN  IF ~d[table].exists THEN Err(d, "UndefinedTable")
             ELSE IF ~read.ok THEN Err(d, read.error)
             ELSE IF \E i \in 1..Len(made) : ~made[i].ok
             THEN Err(d, made[CHOOSE i \in 1..Len(made) :
                                 /\ ~made[i].ok
                                 /\ \A j \in 1..(i - 1) : made[j].ok].error)
             ELSE CopyToTable(d, table, [i \in 1..Len(made) |-> made[i].row])

\* counters[name] = await bulk_insert(table, raw_conn, records): pass is the
\* generator consumed by the COPY, locals the dicts it leaves behind.
pb_BulkInsert(label, name, table, pass, capa, muns, strs) ==
    /\ pb_pc = label
    /\ \E fault \in BOOLEAN :
          LET copy == pb_CopyToTable(pb_db, table, pass.rows)
          IN  IF fault THEN pb_Abort("OperationalError") /\ UNCHANGED pb_db
              ELSE IF ~pass.ok THEN pb_Abort("ValueError") /\ UNCHANGED pb_db
              ELSE IF ~copy.ok THEN pb_Abort(copy.error) /\ UNCHANGED pb_db
              ELSE /\ pb_db' = copy.db
                   /\ pb_counters' = (name :> Len(pass.rows)) @@ pb_counters
                   /\ capa_key_to_capa_inspire_id' = capa
                   /\ municipalities' = muns
                   /\ streets' = strs
                   /\ pb_Advance
    /\ UNCHANGED <<pb_source, threed_vars, geometry_vars, stream_vars>>

pb_LoadParcels ==
    /\ LET pass == read_cadastral_parcels(pb_source.parcels, 1,
                                          capa_key_to_capa_inspire_id, <<>>)
       IN  pb_BulkInsert("load_parcels", "cadastral_parcel",
                         "cadastral_parcel_tmp", pass,
                         pass.capa, municipalities, streets)

pb_LoadAddresses ==
    /\ LET pass == read_addresses(pb_source.addresses, 1,
                                  capa_key_to_capa_inspire_id, municipalities,
                                  streets, <<>>)
       IN  pb_BulkInsert("load_addresses", "address", "address_tmp", pass,
                         capa_key_to_capa_inspire_id, pass.muns, pass.strs)

pb_LoadBuildings ==
    /\ pb_BulkInsert("load_buildings", "building", "building_tmp",
                     read_buildings(pb_source.buildings, 1, <<>>),
                     capa_key_to_capa_inspire_id, municipalities, streets)

pb_LoadMunicipalities ==
    /\ pb_BulkInsert("load_municipalities", "municipality", "municipality_tmp",
                     [ok |-> TRUE, rows |-> DictValues(municipalities)],
                     capa_key_to_capa_inspire_id, municipalities, streets)

pb_LoadStreets ==
    /\ pb_BulkInsert("load_streets", "street", "street_tmp",
                     [ok |-> TRUE, rows |-> DictValues(streets)],
                     capa_key_to_capa_inspire_id, municipalities, streets)

pb_Next ==
    \/ pb_Start
    \/ pb_CreateTables
    \/ pb_LoadParcels
    \/ pb_LoadAddresses
    \/ pb_LoadBuildings
    \/ pb_LoadMunicipalities
    \/ pb_LoadStreets
    \/ pb_CreateIndexes
    \/ pb_ReplaceTables

\* One parcel_and_building reload over every source of the group.
InitParcel ==
    /\ pb_source \in ParcelSources
    /\ ParcelStartUp
    /\ source = <<>>
    /\ forbidden_dir = <<>>
    /\ db = InitialDb
    /\ pc = [p \in Reloads |-> "idle"]
    /\ run = [p \in Reloads |-> 0]
    /\ runs = 0
    /\ building_solids = [p \in Reloads |-> <<>>]
    /\ to_remove = [p \in Reloads |-> {}]
    /\ counters = [p \in Reloads |-> NoCounters]
    /\ error = [p \in Reloads |-> NoError]
    /\ error_log = {}
    /\ raised = [p \in Reloads |-> {}]
    /\ active_before = [p \in Reloads |-> ActiveRows(InitialDb)]
    /\ previous_error = "none"
    /\ uri = <<>>
    /\ parsed = NotParsed
    /\ site = NoSite
    /\ GeometryIdle
    /\ StreamIdle

SpecParcel == InitParcel /\ [][pb_Next]_vars

\* One reload over address streams whose names can hold a quote character.
QuotedDimensionKinds ==
    {[street_id |-> STREET_NAME \o <<s>>, strname_fre |-> sn,
      munnis_code |-> MUNICIPALITY \o <<m>>, munname_fre |-> mn] :
        s \in {"1", "2"}, sn \in {<<"rue A">>, <<"rue A", QUOTE>>},
        m \in {"1", "2"}, mn \in {<<"Ville A">>, <<"Ville A", QUOTE>>}}

QuotedSources ==
    {[parcels |-> <<SourceParcel(1, [inspire_id |-> CADASTRAL_PARCEL \o <<"1">>,
                                     capakey |-> "kA"])>>,
      addresses |-> [k \in 1..Len(g) |->
                        SourceAddress(k, [dimensions |-> g[k], capakey |-> "kA"])],
      buildings |-> <<>>] :
        g \in UNION {[1..m -> QuotedDimensionKinds] : m \in 0..MaxAddresses}}

InitParcelQuoted ==
    /\ pb_source \in QuotedSources
    /\ ParcelStartUp
    /\ source = <<>>
    /\ forbidden_dir = <<>>
    /\ db = InitialDb
    /\ pc = [p \in Reloads |-> "idle"]
    /\ run = [p \in Reloads |-> 0]
    /\ runs = 0
    /\ building_solids = [p \in Reloads |-> <<>>]
    /\ to_remove = [p \in Reloads |-> {}]
    /\ counters = [p \in Reloads |-> NoCounters]
    /\ error = [p \in Reloads |-> NoError]
    /\ error_log = {}
    /\ raised = [p \in Reloads |-> {}]
    /\ active_before = [p \in Reloads |-> ActiveRows(InitialDb)]
    /\ previous_error = "none"
    /\ uri = <<>>
    /\ parsed = NotParsed
    /\ site = NoSite
    /\ GeometryIdle
    /\ StreamIdle

SpecParcelQuoted == InitParcelQuoted /\ [][pb_Next]_vars

\* ------------------------------------------------------------ centroids alone
InitCentroid ==
    /\ shape \in MultiPolygons
    /\ centroid = NotComputed
    /\ StreamIdle
    /\ ParcelIdle
    /\ source = <<>>
    /\ forbidden_dir = <<>>
    /\ db = InitialDb
    /\ pc = [p \in Reloads |-> "idle"]
    /\ run = [p \in Reloads |-> 0]
    /\ runs = 0
    /\ building_solids = [p \in Reloads |-> <<>>]
    /\ to_remove = [p \in Reloads |-> {}]
    /\ counters = [p \in Reloads |-> NoCounters]
    /\ error = [p \in Reloads |-> NoError]
    /\ error_log = {}
    /\ raised = [p \in Reloads |-> {}]
    /\ active_before = [p \in Reloads |-> ActiveRows(InitialDb)]
    /\ previous_error = "none"
    /\ uri = <<>>
    /\ parsed = NotParsed
    /\ site = NoSite

\* read_building_faces on a ground-surface face: shape.centroid.
GroundFaceCentroid ==
    /\ centroid.by = "none"
    /\ centroid' = [by |-> "read_building_faces", point |-> ShapelyCentroid(shape)]
    /\ UNCHANGED <<shape, threed_vars, parcel_vars,
                   stream_vars>>

\* A caller of the geometry utilities: multipolygon_centroid_3d(shape).
ToolkitCentroid ==
    /\ centroid.by = "none"
    /\ centroid' = [by |-> "multipolygon_centroid_3d",
                    point |-> multipolygon_centroid_3d(shape)]
    /\ UNCHANGED <<shape, threed_vars, parcel_vars,
                   stream_vars>>

NextCentroid == GroundFaceCentroid \/ ToolkitCentroid

SpecCentroid == InitCentroid /\ [][NextCentroid]_vars

\* ----------------------------------------------------------- bulk_insert alone
\* What the iterable gives at one position: a record, or an exception raised
\* by the generator behind it.
\* The columns of the table of the call: an integer key, a text attribute and
\* a geometry, whose str() is its hexadecimal text, one word.
StreamColumns == <<"id", "name", "geometry">>

\* The text attributes: plain, empty, with a tab, with an end of line, with a
\* quote character.
StreamTexts ==
    {<<"a">>, <<>>, <<"a", TAB, "b">>, <<"a", NL, "b">>, <<"a", QUOTE>>}

StreamKinds ==
    {[name |-> t, geometry |-> "polyA", raises |-> FALSE] : t \in StreamTexts}
    \cup {[name |-> NoneText, geometry |-> Null, raises |-> FALSE],
          [name |-> <<"a">>, geometry |-> Null, raises |-> TRUE]}

StreamRecords ==
    UNION {{[k \in 1..n |-> [id |-> k, name |-> f[k].name,
                             geometry |-> f[k].geometry,
                             raises |-> f[k].raises]] :
                f \in [1..n -> StreamKinds]} : n \in 0..MaxRecords}

\* '' if getattr(obj, column) is None else str(getattr(obj, column))
AttributeText(obj, column) ==
    CASE column = "id" -> PyStr(obj.id)
      [] column = "name" -> IF obj.name = NoneText THEN <<>> ELSE obj.name
      [] OTHER -> IF obj.geometry = Null THEN <<>> ELSE <<obj.geometry>>

\* The line __anext__ builds: the attributes joined by tabs, then '\n'.
LineOf(obj) ==
    JoinTab([i \in 1..Len(StreamColumns) |->
                AttributeText(obj, StreamColumns[i])]) \o <<NL>>

\* The row the server makes of the fields of one row of the text: the key is
\* read as an integer and cannot be NULL, the geometry must be the text of a
\* geometry.
StreamRow(fields) ==
    IF fields[1].null
    THEN [ok |-> FALSE, row |-> Null, error |-> "NotNullViolation"]
    ELSE IF \E i \in 1..Len(fields[1].text) : ~IsDigit(fields[1].text[i])
    THEN [ok |-> FALSE, row |-> Null, error |-> "InvalidTextRepresentation"]
    ELSE IF ~fields[3].null /\ fields[3].text # <<"polyA">>
    THEN [ok |-> FALSE, row |-> Null, error |-> "InternalServerError"]
    ELSE [ok |-> TRUE,
          row |-> [id |-> DecimalValue(fields[1].text),
                   name |-> IF fields[2].null THEN NoneText ELSE fields[2].text,
                   geometry |-> IF fields[3].null THEN Null ELSE fields[3].text[1]],
          error |-> "none"]

\* What the COPY statement makes of the lines it was given: the rows, or the
\* error that ends the statement with no row stored.
ServerRows(lines) ==
    LET read == CsvRead(lines, Len(StreamColumns))
        made == [i \in 1..Len(read.rows) |-> StreamRow(read.rows[i])]
    IN  IF ~read.ok THEN [ok |-> FALSE, rows |-> <<>>, error |-> read.error]
        ELSE IF \E i \in 1..Len(made) : ~made[i].ok
        THEN [ok |-> FALSE, rows |-> <<>>,
              error |-> made[CHOOSE i \in 1..Len(made) :
                                 /\ ~made[i].ok
                                 /\ \A j \in 1..(i - 1) : made[j].ok].error]
        ELSE [ok |-> TRUE, rows |-> [i \in 1..Len(made) |-> made[i].row],
              error |-> "none"]

InitBulkInsert ==
    /\ bi_records \in StreamRecords
    /\ StreamNotStarted
    /\ ParcelIdle
    /\ GeometryIdle
    /\ source = <<>>
    /\ forbidden_dir = <<>>
    /\ db = InitialDb
    /\ pc = [p \in Reloads |-> "idle"]
    /\ run = [p \in Reloads |-> 0]
    /\ runs = 0
    /\ building_solids = [p \in Reloads |-> <<>>]
    /\ to_remove = [p \in Reloads |-> {}]
    /\ counters = [p \in Reloads |-> NoCounters]
    /\ error = [p \in Reloads |-> NoError]
    /\ error_log = {}
    /\ raised = [p \in Reloads |-> {}]
    /\ active_before = [p \in Reloads |-> ActiveRows(InitialDb)]
    /\ previous_error = "none"
    /\ uri = <<>>
    /\ parsed = NotParsed
    /\ site = NoSite

\* bulk_insert(table, raw_conn, iterable): the AsyncLineIterator is built and
\* copy_to_table awaited.
bi_Call ==
    /\ bi_pc = "idle"
    /\ bi_pc' = "ready"
    /\ UNCHANGED <<bi_records, bi_pulled, bi_obj, bi_count, bi_handed,
                   bi_written, bi_result>>
    /\ UNCHANGED <<threed_vars, parcel_vars, geometry_vars>>
    /\ UNCHANGED bi_copied

\* The COPY asks for the next line: __anext__ runs next(self.records), which
\* gives a record or lets the exception of the generator through.
bi_Pull ==
    /\ bi_pc = "ready"
    /\ bi_pulled < Len(bi_records)
    /\ IF bi_records[bi_pulled + 1].raises
       THEN /\ bi_pc' = "failed"
            /\ bi_result' = [kind |-> "ValueError", count |-> 0]
            /\ UNCHANGED <<bi_pulled, bi_obj>>
       ELSE /\ bi_pc' = "anext"
            /\ bi_pulled' = bi_pulled + 1
            /\ bi_obj' = <<bi_records[bi_pulled + 1]>>
            /\ UNCHANGED bi_result
    /\ UNCHANGED <<bi_records, bi_count, bi_handed, bi_written>>
    /\ UNCHANGED <<threed_vars, parcel_vars, geometry_vars>>
    /\ UNCHANGED bi_copied

\* The rest of __anext__: the line is built, count incremented, the line
\* returned.
bi_Return ==
    /\ bi_pc = "anext"
    /\ bi_pc' = "writing"
    /\ bi_count' = bi_count + 1
    /\ bi_handed' = Append(bi_handed, LineOf(bi_obj[1]))
    /\ bi_obj' = <<>>
    /\ UNCHANGED <<bi_records, bi_pulled, bi_written, bi_result>>
    /\ UNCHANGED <<threed_vars, parcel_vars, geometry_vars>>
    /\ UNCHANGED bi_copied

\* The line kept by the COPY, which asks for the next one at once.
bi_WriteBuffered ==
    /\ bi_pc = "writing"
    /\ bi_pc' = "ready"
    /\ UNCHANGED <<bi_records, bi_pulled, bi_obj, bi_count, bi_handed,
                   bi_written, bi_result>>
    /\ UNCHANGED <<threed_vars, parcel_vars, geometry_vars>>
    /\ UNCHANGED bi_copied

\* The COPY writes the line to the server, waiting until the connection takes
\* it, or the server refuses it.
bi_Write ==
    /\ bi_pc = "writing"
    /\ \E fault \in BOOLEAN :
          IF fault
          THEN /\ bi_pc' = "failed"
               /\ bi_result' = [kind |-> "OperationalError", count |-> 0]
               /\ UNCHANGED bi_written
          ELSE /\ bi_pc' = "ready"
               /\ bi_written' = bi_written + 1
               /\ UNCHANGED bi_result
    /\ UNCHANGED <<bi_records, bi_pulled, bi_obj, bi_count, bi_handed>>
    /\ UNCHANGED <<threed_vars, parcel_vars, geometry_vars>>
    /\ UNCHANGED bi_copied

\* next(self.records) raises StopIteration: StopAsyncIteration ends the COPY.
\* The server has read the lines: when it accepts them bulk_insert returns
\* gen.count, when it rejects them copy_to_table raises its error.
bi_Exhausted ==
    /\ bi_pc = "ready"
    /\ bi_pulled = Len(bi_records)
    /\ bi_copied' = ServerRows(bi_handed)
    /\ IF bi_copied'.ok
       THEN /\ bi_pc' = "returned"
            /\ bi_result' = [kind |-> "count", count |-> bi_count]
       ELSE /\ bi_pc' = "failed"
            /\ bi_result' = [kind |-> bi_copied'.error, count |-> 0]
    /\ UNCHANGED <<bi_records, bi_pulled, bi_obj, bi_count, bi_handed,
                   bi_written>>
    /\ UNCHANGED <<threed_vars, parcel_vars, geometry_vars>>

NextBulkInsert ==
    \/ bi_Call
    \/ bi_Pull
    \/ bi_Return
    \/ bi_Write
    \/ bi_Exhausted

SpecBulkInsert == InitBulkInsert /\ [][NextBulkInsert]_vars

\* ------------------------------------------------------- read_inspire_id alone
Alphabet == {"s", "f", "/", "7", "-", " ", "_"}

Texts(maxLen, alphabet) == UNION {[1..n -> alphabet] : n \in 0..maxLen}

InitParse ==
    /\ uri \in Texts(MaxUriLen, Alphabet)
    /\ parsed = NotParsed
    /\ site = NoSite
    /\ source = <<>>
    /\ forbidden_dir = <<>>
    /\ db = InitialDb
    /\ pc = [p \in Reloads |-> "idle"]
    /\ run = [p \in Reloads |-> 0]
    /\ runs = 0
    /\ building_solids = [p \in Reloads |-> <<>>]
    /\ to_remove = [p \in Reloads |-> {}]
    /\ counters = [p \in Reloads |-> NoCounters]
    /\ error = [p \in Reloads |-> NoError]
    /\ error_log = {}
    /\ raised = [p \in Reloads |-> {}]
    /\ active_before = [p \in Reloads |-> ActiveRows(InitialDb)]
    /\ previous_error = "none"
    /\ ParcelIdle
    /\ GeometryIdle
    /\ StreamIdle

\* A parser calls read_inspire_id(uri, uri_base).
Parse ==
    /\ ~parsed.done
    /\ \E uri_base \in {BUILDING_SOLID, BUILDING_FACE} :
          LET r == read_inspire_id(uri, uri_base)
          IN  parsed' = [done |-> TRUE, base |-> uri_base,
                         ok |-> r.ok, value |-> r.value]
    /\ UNCHANGED <<input_vars, db, pc, run, runs, local_vars, error, error_log,
                   active_before, uri, site, previous_error, parcel_vars,
                   geometry_vars, stream_vars>>

SpecParse == InitParse /\ [][Parse]_vars

\* ------------------------------------------- the references of a source record
\* The characters of the texts a reference attribute is drawn from.
ReferenceAlphabet == {"a", "b", "/", "7", " "}

\* The reference attributes read_addresses and read_buildings read: the ones
\* passed to read_inspire_id as they are, and the ones guarded by
\* is_valid_inspire_id.
ReferenceSites ==
    {[attribute |-> "address.inspire_id", uri_base |-> ADDRESS, optional |-> FALSE],
     [attribute |-> "address.street_id", uri_base |-> STREET_NAME, optional |-> FALSE],
     [attribute |-> "address.parent_id", uri_base |-> ADDRESS, optional |-> TRUE],
     [attribute |-> "address.bu_id", uri_base |-> BUILDING, optional |-> TRUE],
     [attribute |-> "building.inspire_id", uri_base |-> BUILDING, optional |-> FALSE],
     [attribute |-> "building.block_id", uri_base |-> BLOCK, optional |-> TRUE]}

\* A source address and a source building whose references are all well formed.
PlainAddress ==
    [id |-> 1,
     inspire_id |-> ADDRESS \o <<"1">>,
     street_id |-> STREET_NAME \o <<"1">>,
     strname_fre |-> <<"rue A">>,
     munnis_code |-> MUNICIPALITY \o <<"1">>,
     munname_fre |-> <<"Ville A">>,
     capakey |-> "kA",
     parent_id |-> NoneText,
     bu_id |-> NoneText]

PlainBuilding ==
    [id |-> 1, inspire_id |-> BUILDING \o <<"1">>, block_id |-> NoneText]

\* What the parser makes of the record whose attribute s holds text: whether
\* the iteration completes, and the value the row it yields has for the
\* attribute (NoneInt: None).
ReadAt(s, text) ==
    IF s.attribute \in {"building.inspire_id", "building.block_id"}
    THEN LET rec == IF s.attribute = "building.inspire_id"
                    THEN [PlainBuilding EXCEPT !.inspire_id = text]
                    ELSE [PlainBuilding EXCEPT !.block_id = text]
             pass == read_buildings(<<rec>>, 1, <<>>)
         IN  [ok |-> pass.ok,
              value |-> IF ~pass.ok THEN NoneInt
                        ELSE IF s.attribute = "building.inspire_id"
                        THEN Some(pass.rows[1].building_id)
                        ELSE pass.rows[1].block_id]
    ELSE LET rec == CASE s.attribute = "address.inspire_id" ->
                            [PlainAddress EXCEPT !.inspire_id = text]
                      [] s.attribute = "address.street_id" ->
                            [PlainAddress EXCEPT !.street_id = text]
                      [] s.attribute = "address.parent_id" ->
                            [PlainAddress EXCEPT !.parent_id = text]
                      [] OTHER -> [PlainAddress EXCEPT !.bu_id = text]
             step == AddressStep(<<>>, <<>>, <<>>, rec)
         IN  [ok |-> step.ok,
              value |-> IF ~step.ok THEN NoneInt
                        ELSE CASE s.attribute = "address.inspire_id" ->
                                    Some(step.row.address_id)
                               [] s.attribute = "address.street_id" ->
                                    Some(step.row.street_id)
                               [] s.attribute = "address.parent_id" ->
                                    step.row.parent_id
                               [] OTHER -> step.row.building_id]

InitReference ==
    /\ uri \in Texts(MaxUriLen, ReferenceAlphabet) \cup {NoneText}
    /\ parsed = NotParsed
    /\ site = NoSite
    /\ source = <<>>
    /\ forbidden_dir = <<>>
    /\ db = InitialDb
    /\ pc = [p \in Reloads |-> "idle"]
    /\ run = [p \in Reloads |-> 0]
    /\ runs = 0
    /\ building_solids = [p \in Reloads |-> <<>>]
    /\ to_remove = [p \in Reloads |-> {}]
    /\ counters = [p \in Reloads |-> NoCounters]
    /\ error = [p \in Reloads |-> NoError]
    /\ error_log = {}
    /\ raised = [p \in Reloads |-> {}]
    /\ active_before = [p \in Reloads |-> ActiveRows(InitialDb)]
    /\ previous_error = "none"
    /\ ParcelIdle
    /\ GeometryIdle
    /\ StreamIdle

\* read_addresses or read_buildings reads a record whose reference attribute
\* holds the text.
ReadReference ==
    /\ ~parsed.done
    /\ \E s \in ReferenceSites :
          /\ site' = s
          /\ parsed' = [done |-> TRUE, base |-> s.uri_base,
                         ok |-> ReadAt(s, uri).ok, value |-> ReadAt(s, uri).value]
    /\ UNCHANGED <<input_vars, db, pc, run, runs, local_vars, error, error_log,
                   active_before, uri, previous_error, parcel_vars,
                   geometry_vars, stream_vars>>

SpecReference == InitReference /\ [][ReadReference]_vars

\* Reload requests served concurrently, over the short face streams and one
\* polygon directory.
Init == InitWith(Sources(MaxFacesConcurrent), {<<"zoneA">>})

Next == \E p \in Reloads : Start(p) \/ Step(p)

Spec == Init /\ [][Next]_vars

\* Reload requests served one at a time, over every face stream and polygon
\* directory.
InitSingleWriter == InitWith(Sources(MaxFaces), ForbiddenDirs)

NextSingleWriter == \E p \in Reloads : StartAlone(p) \/ Step(p)

SpecSingleWriter == InitSingleWriter /\ [][NextSingleWriter]_vars

\* Reload requests served one at a time over the short face streams, with the
\* scheduling of the handlers: the body of a handler is a straight line of
\* awaited calls over finite inputs, and the event loop resumes it each time
\* the call it awaits returns or raises; requests arrive or not.
SpecSingleWriterFair ==
    /\ Init
    /\ [][NextSingleWriter]_vars
    /\ \A p \in Reloads : WF_vars(Step(p))

\* ------------------------------------------------------------------- claims

\* The solid a source record names.
SolidIdOf(rec) == read_inspire_id(rec.building_solid_id, BUILDING_SOLID).value

SourceSolids == {SolidIdOf(source[k]) : k \in 1..Len(source)}

GroundFacesOf(s) ==
    {k \in 1..Len(source) :
        source[k].type = GROUNDSURFACE /\ SolidIdOf(source[k]) = s}

LastOf(positions) == CHOOSE k \in positions : \A j \in positions : j <= k

\* The point the source gives solid s: the centroid of its last ground face.
RepresentativePoint(s) ==
    IF GroundFacesOf(s) = {} THEN Null
    ELSE Centroid(source[LastOf(GroundFacesOf(s))].geometry)

InForbiddenZone(point) ==
    \E i \in 1..Len(forbidden_dir) : point \in Covers(forbidden_dir[i])

PublishedSolidIds == {r.building_solid_id : r \in db["building_solid"].rows}
PublishedFaceParents == {r.building_solid_id : r \in db["building_face"].rows}

\* C1: at every moment the active tables of the group a reader finds all exist
\* and all come from the same generation (the same stage step), whatever
\* reloads start, run, fail or complete.
C1_ReaderSeesOneGeneration ==
    \A t1, t2 \in ActiveNames :
        /\ db[t1].exists
        /\ db[t1].created_by = db[t2].created_by

C1_Witness ==
    \E p, q \in Reloads :
        /\ pc[p] = "done"
        /\ pc[q] = "failed"
        /\ error[q].step = "replace_tables"
        /\ db["building_face"].created_by > 0

\* C2: a step of stage, bulk-load, forbidden-zone delete or index build leaves
\* every active table (existence, rows, indexes) as it was.
C2_StagingLeavesActiveTables ==
    [][\A p \in Reloads :
          (pc[p] \in PreSwapSteps /\ pc'[p] # pc[p])
              => \A t \in ActiveNames : db'[t] = db[t]]_vars

C2_Witness ==
    \E p \in Reloads :
        /\ pc[p] = "replace_tables"
        /\ db["building_face"].rows # {}
        /\ db["building_face_tmp"].indexes # {}
        /\ db["building_face_tmp"].created_by = run[p]

\* C3: a swap that fails, at whatever statement, leaves every active table
\* under its name with the rows and indexes it had before the swap began.
C3_FailedSwapRestoresActive ==
    [][\A p \in Reloads :
          (pc[p] = "replace_tables" /\ pc'[p] = "failed")
              => \A t \in ActiveNames : db'[t] = db[t]]_vars

C3_Witness ==
    \E p \in Reloads :
        /\ pc[p] = "failed"
        /\ error[p].step = "replace_tables"
        /\ db["building_face"].rows # {}
        /\ db["building_face"].indexes # {}

\* C4: when a reload fails before its swap, the rows of every active table
\* are, after the failure, those of the moment the reload began.
C4_FailedStagingKeepsRows ==
    [][\A p \in Reloads :
          (pc[p] \in PreSwapSteps /\ pc'[p] = "failed")
              => ActiveRows(db') = active_before[p]]_vars

C4_Witness ==
    \E p \in Reloads :
        /\ pc[p] = "failed"
        /\ error[p].step = "create_indexes"
        /\ db["building_solid"].rows # {}
        /\ db["building_solid_tmp"].created_by = run[p]
        /\ db["building_solid_tmp"].rows # {}

\* A swap has committed: the active tables are those of a reload.
Published == db["building_face"].created_by > 0

\* C5: every row of the published building_face table has a building_solid_id
\* that is the id of a row of the published building_solid table.
C5_NoOrphanFace == PublishedFaceParents \subseteq PublishedSolidIds

C5_Witness ==
    \E p \in Reloads :
        /\ pc[p] = "done"
        /\ db["building_face"].rows # {}
        /\ Cardinality(db["building_face"].rows) < Len(source)

\* C6: every row of the published building_solid table is referenced by at
\* least one row of the published building_face table.
C6_NoSolidWithoutFace == PublishedSolidIds \subseteq PublishedFaceParents

C6_Witness ==
    \E p \in Reloads :
        /\ pc[p] = "done"
        /\ PublishedSolidIds # {}
        /\ SourceSolids \ PublishedSolidIds # {}

\* C7: after a successful reload, a solid whose representative point lies in
\* at least one forbidden polygon is in neither published table, as a solid or
\* as the parent of a face.
C7_ForbiddenSolidsAbsent ==
    Published =>
        \A s \in SourceSolids :
            InForbiddenZone(RepresentativePoint(s))
                => s \notin PublishedSolidIds /\ s \notin PublishedFaceParents

C7_Witness ==
    \E p \in Reloads :
        /\ pc[p] = "done"
        /\ Len(forbidden_dir) > 1
        /\ \E s \in SourceSolids : RepresentativePoint(s) = "pB"
        /\ \E s \in SourceSolids : ~InForbiddenZone(RepresentativePoint(s))

\* C8: a source in which some solid has no ground-surface face does not make
\* the reload fail: such a reload fails only for an outside reason (a refused
\* statement), never because of that solid.
C8_NullPointTolerated ==
    \A p \in Reloads :
        (pc[p] = "failed" /\ \E s \in SourceSolids : RepresentativePoint(s) = Null)
            => error[p].kind = "OperationalError"

\* C9: when the loop over the solids is over, every solid whose exclusion test
\* raised is outside the removal set and its error is recorded, and every
\* solid whose point lies in a forbidden polygon is in the removal set.
C9_RaisedTestRecorded ==
    \A p \in Reloads :
        pc[p] = "delete" =>
            /\ \A s \in raised[p] : s \notin to_remove[p] /\ s \in error_log
            /\ \A s \in SourceSolids :
                   InForbiddenZone(RepresentativePoint(s)) => s \in to_remove[p]

\* An integer text: digits, with at most a minus sign before them.
IsIntegerText(s) ==
    LET digits == IF s # <<>> /\ s[1] = "-" THEN Tail(s) ELSE s
    IN  digits # <<>> /\ \A i \in 1..Len(digits) : IsDigit(digits[i])

\* The uri is exactly the base prefix followed by an integer.
WellFormedUri(text, uri_base) ==
    /\ StartsWith(text, uri_base)
    /\ IsIntegerText(SubSeq(text, Len(uri_base) + 1, Len(text)))

\* C10: read_inspire_id fails for every uri that is not exactly the base prefix
\* followed by an integer.
C10_MalformedUriFails ==
    (parsed.done /\ ~WellFormedUri(uri, parsed.base)) => ~parsed.ok

\* ---------------------------------------------- claims on repeated reloads
\* A reload of the source from the store as start-up leaves it, with no
\* statement refused: the outcome of each call in turn.
CleanReload ==
    LET pass == read_building_faces(source, 1, <<>>, <<>>)
        staged == RunTransaction(InitialDb, CreateTablesStmts(1), 0)
        faces == CopyToTable(staged.db, "building_face_tmp", pass.faces)
        solids == CopyToTable(faces.db, "building_solid_tmp", pass.map)
        areas == CopyToTable(solids.db, "forbidden_area_tmp",
                             ForbiddenRows(forbidden_dir))
        removed == FilterLoop(pass.map, forbidden_dir, 1, {}, TRUE)
        deleted == RunTransaction(areas.db, DeleteStmts(removed), 0)
        indexed == RunTransaction(deleted.db, CreateIndexesStmts, 0)
        swapped == RunTransaction(indexed.db, ReplaceTablesStmts, 0)
    IN  IF ~pass.ok THEN Err(InitialDb, "ValueError")
        ELSE IF ~faces.ok THEN faces
        ELSE IF ~solids.ok THEN solids
        ELSE IF ~areas.ok THEN areas
        ELSE swapped

\* C15: a reload that follows a successful reload of the same source fails
\* only when a statement is refused from outside, and its swap leaves the rows
\* of every active table as the first reload published them.
C15_SecondReloadSameRows ==
    [][\A p \in Reloads :
          (Published /\ previous_error = "none" /\ Running(p)) =>
              /\ pc'[p] = "failed" => error'[p].kind = "OperationalError"
              /\ pc'[p] = "done" => ActiveRows(db') = ActiveRows(db)]_vars

C15_Witness ==
    \E p \in Reloads :
        /\ pc[p] = "done"
        /\ run[p] = 2
        /\ previous_error = "none"
        /\ \A t \in ActiveNames : db[t].created_by = 2
        /\ db["building_face"].rows # {}
        /\ db["building_face"].indexes # {}

\* C16: a reload that follows a reload ended before its swap (by a failure or
\* a cancellation at one of its awaited calls) fails only for a reason that
\* fails a reload from the start-up state too, and its swap publishes the rows
\* a reload from the start-up state publishes.
C16_ReloadAfterFailedAttempt ==
    [][\A p \in Reloads :
          (previous_error = "before_swap" /\ Running(p)) =>
              /\ pc'[p] = "failed" =>
                    error'[p].kind \in {"OperationalError", CleanReload.error}
              /\ pc'[p] = "done" =>
                    /\ ActiveRows(db') = ActiveRows(CleanReload.db)
                    /\ \A t \in ActiveNames :
                          db'[t].indexes = CleanReload.db[t].indexes]_vars

C16_Witness ==
    \E p \in Reloads :
        /\ pc[p] = "done"
        /\ previous_error = "before_swap"
        /\ db["building_face"].rows # {}
        /\ db["building_solid"].indexes # {}

\* The number of records each bulk-load of a 3d_construction reload streams.
Streamed(table) ==
    CASE table = "building_face" -> Len(source)
      [] table = "building_solid" -> Cardinality(SourceSolids)
      [] table = "forbidden_area" -> Len(forbidden_dir)

\* C17: the response of a successful reload has, for every entity of the
\* group, an entry with the number of records streamed into its shadow table.
C17_ResponseCountsEveryEntity ==
    \A p \in Reloads :
        pc[p] = "done" =>
            \A t \in ActiveNames :
                /\ t \in DOMAIN counters[p]
                /\ counters[p][t] = Streamed(t)

\* C18: when no reload is in progress, no shadow table exists.
C18_ShadowTablesOnlyDuringReload ==
    (\A p \in Reloads : ~Running(p)) => \A t \in TmpNames : ~db[t].exists

\* The source records whose parent is solid s.
FacesOf(s) == {k \in 1..Len(source) : SolidIdOf(source[k]) = s}

\* C19: after a successful reload, every solid of the source outside the
\* forbidden zones has as many published faces as the source has face records
\* naming it, and one published row, whose point is the centroid of its
\* (last) ground-surface face.
C19_FacesAndPointPublished ==
    Published =>
        \A s \in SourceSolids :
            ~InForbiddenZone(RepresentativePoint(s)) =>
                /\ Cardinality({r \in db["building_face"].rows :
                                   r.building_solid_id = s})
                      = Cardinality(FacesOf(s))
                /\ {r \in db["building_solid"].rows : r.building_solid_id = s}
                      = {[building_solid_id |-> s,
                          geometry |-> RepresentativePoint(s)]}

C19_Witness ==
    /\ Published
    /\ \E s \in SourceSolids :
          /\ ~InForbiddenZone(RepresentativePoint(s))
          /\ Cardinality(FacesOf(s)) = 2
          /\ Cardinality(GroundFacesOf(s)) = 2
          /\ \E j, k \in GroundFacesOf(s) : source[j].geometry # source[k].geometry

\* ------------------------------------------------------ claims on centroids
UnitSquare == << <<0, 0, 0>>, <<1, 0, 0>>, <<1, 1, 0>>, <<0, 1, 0>> >>

\* C20: the centroid computed for a ground-surface face whose exterior ring is
\* (0,0,0),(1,0,0),(1,1,0),(0,1,0) has three coordinates: x and y one half, and
\* an elevation of 0.
C20_UnitSquareCentroid ==
    (centroid.by # "none" /\ shape = <<UnitSquare>>) =>
        /\ Len(centroid.point) = 3
        /\ FracEq(centroid.point[1], Frac(1, 2))
        /\ FracEq(centroid.point[2], Frac(1, 2))
        /\ FracEq(centroid.point[3], Frac(0, 1))

\* ------------------------------------- claims on the parcel_and_building group
\* The mandatory identifiers of the source records, each with its base.
MandatoryIds ==
    {<<pb_source.parcels[k].inspire_id, CADASTRAL_PARCEL>> :
        k \in 1..Len(pb_source.parcels)}
    \cup {<<pb_source.addresses[k].inspire_id, ADDRESS>> :
            k \in 1..Len(pb_source.addresses)}
    \cup {<<pb_source.addresses[k].street_id, STREET_NAME>> :
            k \in 1..Len(pb_source.addresses)}
    \cup {<<pb_source.addresses[k].munnis_code, MUNICIPALITY>> :
            k \in 1..Len(pb_source.addresses)}
    \cup {<<pb_source.buildings[k].inspire_id, BUILDING>> :
            k \in 1..Len(pb_source.buildings)}

Malformed(id) == id[1] = NoneText \/ ~WellFormedUri(id[1], id[2])

\* A swap of the group has committed.
pb_Published == \E t \in pb_ActiveNames : pb_db[t].created_by > 0

\* C11: when a mandatory identifier of some source record is malformed, the
\* reload does not complete and no table of the run is published.
C11_MalformedIdAborts ==
    (\E id \in MandatoryIds : Malformed(id))
        => pb_pc # "done" /\ ~pb_Published

\* The numeric id an identifier text stands for.
IdOf(text, uri_base) == read_inspire_id(text, uri_base).value

\* The first address record, in stream order, whose field names the id.
FirstAddressWith(field, uri_base, id) ==
    LET positions == {k \in 1..Len(pb_source.addresses) :
                         IdOf(pb_source.addresses[k][field], uri_base) = id}
    IN  pb_source.addresses[CHOOSE k \in positions :
                                \A j \in positions : k <= j]

StreetIdsSeen ==
    {IdOf(pb_source.addresses[k].street_id, STREET_NAME) :
        k \in 1..Len(pb_source.addresses)}

MunicipalityIdsSeen ==
    {IdOf(pb_source.addresses[k].munnis_code, MUNICIPALITY) :
        k \in 1..Len(pb_source.addresses)}

\* C12: after a reload, every street id and every municipality id of the
\* address stream has exactly one published entity, named as in the first
\* address record that carried the id.
C12_FirstOccurrenceIsCanonical ==
    pb_pc = "done" =>
        /\ \A id \in StreetIdsSeen :
              {r \in pb_db["street"].rows : r.street_id = id}
                 = {[street_id |-> id,
                     street_name_french |->
                        FirstAddressWith("street_id", STREET_NAME, id).strname_fre,
                     cleaned_street_name_french |->
                        _norm(FirstAddressWith("street_id", STREET_NAME,
                                               id).strname_fre)]}
        /\ \A id \in MunicipalityIdsSeen :
              {r \in pb_db["municipality"].rows : r.municipality_id = id}
                 = {[municipality_id |-> id,
                     municipality_name_french |->
                        FirstAddressWith("munnis_code", MUNICIPALITY, id).munname_fre]}

C12_Witness ==
    /\ pb_pc = "done"
    /\ \E j, k \in 1..Len(pb_source.addresses) :
          /\ j < k
          /\ pb_source.addresses[j].street_id = pb_source.addresses[k].street_id
          /\ pb_source.addresses[j].strname_fre # pb_source.addresses[k].strname_fre
    /\ Cardinality(pb_db["street"].rows) = 1

\* C13: when the address stream is read, the key -> id dict holds an entry for
\* the key of every parcel of the source.
C13_ParcelsBeforeAddresses ==
    [][(pb_pc = "load_addresses" /\ pb_pc' # pb_pc)
          => \A k \in 1..Len(pb_source.parcels) :
                HasKey(capa_key_to_capa_inspire_id, pb_source.parcels[k].capakey)]_vars

C13_Witness ==
    /\ pb_pc = "load_buildings"
    /\ Len(pb_source.parcels) > 0
    /\ \E r \in pb_db["address_tmp"].rows : r.cadastral_parcel_id # NoneInt

\* C14: every published address carries the id of a parcel of the run whose
\* key is the address's key, never a null parcel id.
C14_ParcelKeyResolved ==
    pb_pc = "done" =>
        \A r \in pb_db["address"].rows :
            /\ r.cadastral_parcel_id # NoneInt
            /\ \E k \in 1..Len(pb_source.parcels) :
                  /\ pb_source.parcels[k].capakey
                        = pb_source.addresses[r.id].capakey
                  /\ Some(IdOf(pb_source.parcels[k].inspire_id, CADASTRAL_PARCEL))
                        = r.cadastral_parcel_id

\* ------------------------------------------------------ claims on the face pass
\* C21: when the face pass is over, the map holds one solid per solid named in
\* the stream, and the point of each is the centroid of the last ground-surface
\* face naming it, null exactly when the stream has no ground-surface face
\* for it.
C21_LastGroundFaceWins ==
    \A p \in Reloads :
        pc[p] = "load_solids" =>
            /\ {building_solids[p][i].building_solid_id :
                    i \in 1..Len(building_solids[p])} = SourceSolids
            /\ \A i \in 1..Len(building_solids[p]) :
                  LET solid == building_solids[p][i]
                  IN  /\ solid.geometry =
                            RepresentativePoint(solid.building_solid_id)
                      /\ solid.geometry = Null
                            <=> GroundFacesOf(solid.building_solid_id) = {}

C21_Witness ==
    \E p \in Reloads :
        /\ pc[p] = "load_solids"
        /\ Len(source) = 2
        /\ source[1].type = GROUNDSURFACE
        /\ source[2].type = WALLSURFACE
        /\ source[1].building_solid_id = source[2].building_solid_id
        /\ source[1].geometry # source[2].geometry
        /\ building_solids[p][1].geometry = Centroid(source[1].geometry)

\* ------------------------------------------------- claims on the order of steps
\* The calls of load_3d_construction in program order.
StepOrder ==
    <<"create_tables", "load_faces", "load_solids", "load_forbidden", "delete",
      "create_indexes", "replace_tables", "done">>

PositionOf(label) == CHOOSE i \in 1..Len(StepOrder) : StepOrder[i] = label

\* The names of the shadow indexes _create_indexes builds.
ShadowIndexNames ==
    {CreateIndexesStmts[i].rel : i \in 1..Len(CreateIndexesStmts)}

\* C22: a reload leaves a step only for the next one in program order or by
\* failing; it starts loading only with every shadow table recreated (present,
\* empty, without index), reaches the forbidden-zone delete only with every
\* face and every solid of the source in the shadow tables, starts building
\* indexes only with the delete committed, and starts the swap only with every
\* shadow index built.
C22_StepsInFixedOrder ==
    [][\A p \in Reloads :
          (Running(p) /\ pc'[p] # pc[p]) =>
              /\ pc'[p] \in {"failed", StepOrder[PositionOf(pc[p]) + 1]}
              /\ pc'[p] = "load_faces" =>
                    \A t \in TmpNames :
                        /\ db'[t].exists
                        /\ db'[t].rows = {}
                        /\ db'[t].indexes = {}
                        /\ db'[t].created_by = run[p]
              /\ pc'[p] = "delete" =>
                    /\ Cardinality(db'["building_face_tmp"].rows) = Len(source)
                    /\ {r.building_solid_id : r \in db'["building_solid_tmp"].rows}
                          = SourceSolids
              /\ pc'[p] = "create_indexes" =>
                    \A t \in {"building_face_tmp", "building_solid_tmp"} :
                        \A r \in db'[t].rows :
                            r.building_solid_id \notin to_remove[p]
              /\ pc'[p] = "replace_tables" =>
                    ShadowIndexNames \subseteq RelationNames(db')]_vars

C22_Witness ==
    \E p \in Reloads :
        /\ pc[p] = "done"
        /\ run[p] = 2
        /\ previous_error = "before_swap"
        /\ Cardinality(SourceSolids) = 2
        /\ Cardinality(PublishedSolidIds) = 1

\* ---------------------------------------------------------- claims on the swap
\* The canonical names {active_table}_{columns} of the indexes of a table.
CanonicalIndexNames(table) ==
    LET descriptions == associated_indexes(TmpName(table))
    IN  {get_index_name(table, descriptions[j]) : j \in 1..Len(descriptions)}

\* The names an index gets from the shadow name of a table: those
\* _create_indexes gives, and those CREATE TABLE gives the primary-key index.
ShadowDerivedNames ==
    ShadowIndexNames
        \cup {makeObjectName(t, "pkey", n) :
                t \in TmpNames, n \in 0..(Len(Digits) - 1)}

\* C23: a swap that commits leaves, for every table of the group, under the
\* active name the rows the shadow table held just before, no table under the
\* shadow name, the indexes built by the reload under their canonical names,
\* and no index attached to the active table under a name derived from the
\* shadow name.
C23_SwapPublishesShadow ==
    [][\A p \in Reloads :
          (pc[p] = "replace_tables" /\ pc'[p] = "done") =>
              \A t \in ActiveNames :
                  /\ db'[t].exists
                  /\ db'[t].rows = db[TmpName(t)].rows
                  /\ ~db'[TmpName(t)].exists
                  /\ db'[t].indexes = CanonicalIndexNames(t)
                  /\ AttachedIndexes(db', t) \cap ShadowDerivedNames = {}]_vars

\* ------------------------------------------------------- claims on bulk_insert
\* C24: the iterable is advanced only by a request of the COPY that has
\* written every line it was given, one record per request; the lines handed
\* over are those of the records pulled, in order, and as many as gen.count;
\* at most one record is inside __anext__ and at most one line with the COPY
\* unwritten, never both; and the count returned is the number of records of
\* the iterable.
C24_ProducerPulledBySink ==
    [][/\ bi_pulled' # bi_pulled =>
             /\ bi_pulled' = bi_pulled + 1
             /\ bi_pc = "ready"
             /\ bi_written = Len(bi_handed)
             /\ bi_pulled = Len(bi_handed)
       /\ bi_count' = Len(bi_handed')
       /\ bi_handed' = [k \in 1..Len(bi_handed') |-> LineOf(bi_records[k])]
       /\ bi_pulled' - Len(bi_handed') = Len(bi_obj')
       /\ (bi_pulled' - Len(bi_handed')) + (Len(bi_handed') - bi_written')
             \in {0, 1}
       /\ bi_pc' = "returned" =>
             /\ bi_result'.kind = "count"
             /\ bi_result'.count = Len(bi_records)
             /\ bi_written' = Len(bi_records)]_vars

C24_Witness ==
    /\ bi_pc = "returned"
    /\ bi_result.count = MaxRecords
    /\ \E k \in 1..Len(bi_records) : bi_records[k].geometry = Null

\* -------------------------------------------------- claims on concurrent reloads
\* The positions of a reload between its stage step and the end of its swap.
BetweenStageAndSwap == (PreSwapSteps \ {"create_tables"}) \cup {"replace_tables"}

\* C25: whenever a reload is between its stage step and its swap and another
\* reload has reached its stage step, that stage step may run at once and its
\* drop and recreate of the shadow tables commits, nothing making the second
\* reload wait for the first; when it runs, the shadow tables the first
\* reload was filling are empty tables of the second.
C25_NoLockBetweenReloads ==
    [][\A p, q \in Reloads :
          (p # q /\ pc[p] \in BetweenStageAndSwap /\ pc[q] = "create_tables")
              => /\ MayStage(q)
                 /\ RunTransaction(db, CreateTablesStmts(run[q]), 0).ok
                 /\ pc'[q] = "load_faces" =>
                       \A t \in TmpNames :
                           /\ db'[t].rows = {}
                           /\ db'[t].indexes = {}
                           /\ db'[t].created_by = run[q]]_vars

\* A reload has published tables recreated and filled by the other reload,
\* whose swap then failed for want of its shadow tables.
C25_Witness ==
    \E p, q \in Reloads :
        /\ p # q
        /\ pc[p] = "done"
        /\ run[p] < run[q]
        /\ \A t \in ActiveNames : db[t].created_by = run[q]
        /\ db["forbidden_area"].rows # {}
        /\ pc[q] = "failed"
        /\ error[q] = [kind |-> "UndefinedTable", step |-> "replace_tables"]

\* ----------------------------------------------------- claims on the stage step
\* C26: when the stage step has committed, every shadow table of the group
\* exists, is empty and was created by that step, and no index of a shadow
\* name is left in the schema, whether the shadow tables were absent, present
\* with rows, or present with rows and indexes before it.
C26_StageStepResets ==
    [][\A p \in Reloads :
          (pc[p] = "create_tables" /\ pc'[p] = "load_faces") =>
              /\ \A t \in TmpNames :
                    /\ db'[t].exists
                    /\ db'[t].rows = {}
                    /\ db'[t].indexes = {}
                    /\ db'[t].created_by = run[p]
              /\ ShadowIndexNames \cap RelationNames(db') = {}
              /\ \A t \in ActiveNames : db'[t] = db[t]]_vars

\* The stage step has run on shadow tables a failed swap had left with rows
\* and indexes.
C26_Witness ==
    \E p \in Reloads :
        /\ pc[p] = "load_faces"
        /\ run[p] = 2
        /\ previous_error = "swap"
        /\ Len(source) = MaxFaces
        /\ Len(forbidden_dir) > 0
        /\ db["building_face_tmp"].created_by = 2

\* --------------------------------------------- claims on the geometry utilities
\* The vertices of the exterior rings of all the parts, one after the other.
AllVertices(multipoly) == Flatten(multipoly)

\* The unweighted mean of the vertices: each counts once.
VertexMean(multipoly) ==
    LET vertices == AllVertices(multipoly)
    IN  [axis \in 1..3 |->
            Frac(Sum([i \in 1..Len(vertices) |-> vertices[i][axis]]),
                 Len(vertices))]

\* C27: the centroid multipolygon_centroid_3d gives is, on each axis, the mean
\* of all the exterior-ring vertices of all the parts, each vertex with the
\* same weight.
C27_UnweightedVertexMean ==
    centroid.by = "multipolygon_centroid_3d" =>
        \A axis \in 1..3 :
            FracEq(centroid.point[axis], VertexMean(shape)[axis])

\* ------------------------------------------- claims on the forbidden-zone filter
\* The ids of the published faces whose parent is solid s.
PublishedFacesOf(s) ==
    {r.id : r \in {f \in db["building_face"].rows : f.building_solid_id = s}}

\* C28: the removal set of a reload holds only solids whose point lies in a
\* forbidden polygon; after a successful reload every solid of the source
\* whose point lies in no forbidden polygon is published with every face the
\* source has for it, and with no forbidden polygon every solid and every
\* face of the source is published.
C28_OnlyForbiddenSolidsRemoved ==
    /\ \A p \in Reloads :
          \A s \in to_remove[p] : InForbiddenZone(RepresentativePoint(s))
    /\ Published =>
          \A s \in SourceSolids :
              ~InForbiddenZone(RepresentativePoint(s)) =>
                  /\ s \in PublishedSolidIds
                  /\ PublishedFacesOf(s) = {source[k].id : k \in FacesOf(s)}
    /\ (Published /\ forbidden_dir = <<>>) =>
          /\ PublishedSolidIds = SourceSolids
          /\ Cardinality(db["building_face"].rows) = Len(source)

C28_Witness ==
    \E p \in Reloads :
        /\ pc[p] = "done"
        /\ forbidden_dir # <<>>
        /\ SourceSolids \ PublishedSolidIds # {}
        /\ \E s \in PublishedSolidIds :
              /\ RepresentativePoint(s) = "pDegenerate"
              /\ PublishedFacesOf(s) # {}

\* --------------------------------------------------------- claims on index names
\* The state of the store after the first k statements of a list.
RECURSIVE AfterStatements(_, _, _)
AfterStatements(d, stmts, k) ==
    IF k = 0 THEN d ELSE Exec(AfterStatements(d, stmts, k - 1), stmts[k]).db

\* C29: index names are {table}_{col1}_{col2}...; when a reload builds its
\* indexes the names it creates differ from one another and from every name
\* of the schema, indexes of the previous generation included, and when it
\* swaps, each canonical active name is free at the moment a shadow index is
\* renamed to it: neither step fails on a name.
C29_IndexNamesNeverCollide ==
    /\ get_index_name("t", <<"a", "b">>) = "t_a_b"
    /\ ShadowIndexNames =
          {"building_face_tmp_building_solid_id", "building_solid_tmp_geometry"}
    /\ \A p \in Reloads :
          /\ pc[p] = "create_indexes" =>
                /\ \A i, j \in 1..Len(CreateIndexesStmts) :
                       i # j => CreateIndexesStmts[i].rel # CreateIndexesStmts[j].rel
                /\ ShadowIndexNames \cap RelationNames(db) = {}
                /\ RunTransaction(db, CreateIndexesStmts, 0).ok
          /\ pc[p] = "replace_tables" =>
                /\ \A k \in 1..Len(ReplaceTablesStmts) :
                       ReplaceTablesStmts[k].op = "rename_index" =>
                           ReplaceTablesStmts[k].arg \notin
                               RelationNames(AfterStatements(db, ReplaceTablesStmts,
                                                             k - 1))
                /\ RunTransaction(db, ReplaceTablesStmts, 0).ok

\* A second reload is about to swap while the indexes of the generation the
\* first one published are in place.
C29_Witness ==
    \E p \in Reloads :
        /\ pc[p] = "replace_tables"
        /\ run[p] = 2
        /\ db["building_face"].created_by = 1
        /\ \A t \in ActiveNames : db[t].indexes = CanonicalIndexNames(t)
        /\ ShadowIndexNames \subseteq RelationNames(db)

\* ------------------------------------------------------- claims on termination
\* C30: a reload that was triggered ends: it reaches the end of the handler
\* with every active table replaced by the generation it built, or it fails
\* with every active table as it was before the failing step and holding the
\* rows it held when the reload began; it stays in no intermediate step for
\* ever, and a finished reload never leaves active tables of two generations.
C30_ReloadTerminates ==
    /\ \A p \in Reloads : Running(p) ~> (pc[p] \in {"done", "failed"})
    /\ [][\A p \in Reloads :
             /\ (Running(p) /\ pc'[p] = "done") =>
                    \A t \in ActiveNames :
                        /\ db'[t].exists
                        /\ db'[t].created_by = run[p]
                        /\ db'[t].rows = db[TmpName(t)].rows
             /\ (Running(p) /\ pc'[p] = "failed") =>
                    /\ \A t \in ActiveNames : db'[t] = db[t]
                    /\ ActiveRows(db') = active_before[p]]_vars
    /\ [](\A p \in Reloads :
             pc[p] \in {"done", "failed"} =>
                 \A t, u \in ActiveNames :
                     /\ db[t].exists
                     /\ db[t].created_by = db[u].created_by)

\* A second reload has failed in its swap while the generation of the first
\* one is active.
C30_Witness ==
    \E p \in Reloads :
        /\ pc[p] = "failed"
        /\ run[p] = 2
        /\ error[p].step = "replace_tables"
        /\ \A t \in ActiveNames : db[t].created_by = 1 /\ db[t].rows # {}

\* ------------------------------------------------------ claims on the COPY text
\* The row a record stands for: its attributes by column.
RecordRow(obj) == [id |-> obj.id, name |-> obj.name, geometry |-> obj.geometry]

\* C33: every line __anext__ returns ends with its only newline and holds
\* len(columns) fields separated by tabs; once every line is written and the
\* COPY has ended, the server has read one row per record, each column with
\* the value of the attribute of that record, whatever the text attributes
\* contain.
C33_LinesCarryRecords ==
    /\ \A k \in 1..Len(bi_handed) :
          /\ bi_handed[k][Len(bi_handed[k])] = NL
          /\ Occurrences(bi_handed[k], NL) = 1
          /\ Occurrences(bi_handed[k], TAB) = Len(StreamColumns) - 1
    /\ (bi_pc \in {"returned", "failed"} /\ bi_written = Len(bi_records)) =>
          /\ bi_copied.ok
          /\ bi_copied.rows =
                [k \in 1..Len(bi_records) |-> RecordRow(bi_records[k])]


\* An absent or blank text, or one that ends with "/".
BareReference(text) ==
    \/ text = NoneText
    \/ Strip(text) = <<>>
    \/ text[Len(text)] = "/"

\* C32: a reference attribute that is absent, blank or ends with "/" is read as
\* None without failing the iteration where the attribute is optional
\* (parent_id, bu_id, block_id) and fails the iteration where it is mandatory;
\* any other text in an optional attribute fails or succeeds, and yields the
\* value, exactly as read_inspire_id does on it.
C32_OptionalReferenceIsLenientOnlyWhenBare ==
    parsed.done =>
        /\ (site.optional /\ BareReference(uri)) =>
                parsed.ok /\ parsed.value = NoneInt
        /\ (~site.optional /\ BareReference(uri)) => ~parsed.ok
        /\ (site.optional /\ ~BareReference(uri)) =>
                /\ parsed.ok = read_inspire_id(uri, site.uri_base).ok
                /\ parsed.ok =>
                      parsed.value = Some(read_inspire_id(uri, site.uri_base).value)

\* A parent_id that is the bare prefix was read as None, and the iteration
\* went on.
C32_Witness ==
    /\ parsed.done
    /\ site.attribute = "address.parent_id"
    /\ uri = ADDRESS
    /\ parsed.ok
    /\ parsed.value = NoneInt

\* ------------------------------------------- claims on the published dimensions
\* C31: after a successful parcel_and_building reload, every published address
\* has exactly one published street with its street_id and exactly one
\* published municipality with its municipality_id.
C31_AddressesHaveTheirDimensions ==
    pb_pc = "done" =>
        \A a \in pb_db["address"].rows :
            /\ Cardinality({r \in pb_db["street"].rows :
                                r.street_id = a.street_id}) = 1
            /\ Cardinality({r \in pb_db["municipality"].rows :
                                r.municipality_id = a.municipality_id}) = 1
====
